---------------------------- MODULE Spec2Model ----------------------------
(***************************************************************************)
(* Model of the query orchestration engine of Osintnator:                  *)
(*   src/osintnator.py  cache helpers, _run_site_with_timeout,             *)
(*                      App._run_sites / App._background_run               *)
(*   src/datasets.py    search_sites_for_query, search_for_site,           *)
(*                      construct_search_links_for_site                    *)
(*   src/scrapers.py    run_scraper and the SCRAPERS registry              *)
(*                                                                         *)
(* Python str values are TLA+ strings; a dict is the sequence of its       *)
(* <<key, value>> pairs in insertion order; a list is a sequence; None of  *)
(* an optional string is the value None below.                             *)
(***************************************************************************)
EXTENDS Integers, Sequences, FiniteSets, TLC

\* ------------------------------------------------------------------------
\* Bounds of the model (not program constants)
\* ------------------------------------------------------------------------
\* longest list of selected sources of an exhaustive single-run session
MaxSites == 2
\* most hits one scraper invocation returns
MaxHits == 2
\* most faults of the environment in one session: a scraper that raises, a
\* timeout, a failing provider, session, file read, write or removal
MaxFaults == 2

None == "<None>"

\* ------------------------------------------------------------------------
\* str primitives
\* ------------------------------------------------------------------------
Char(s, i) == SubSeq(s, i, i)

RangeOf(f) == {f[i] : i \in DOMAIN f}

UPPERCASE == "ABCDEFGHIJKLMNOPQRSTUVWXYZ"
LOWERCASE == "abcdefghijklmnopqrstuvwxyz"
DIGITS == "0123456789"

Chars(a) == {Char(a, k) : k \in 1..Len(a)}

\* position of each character of alphabet a
Positions(a) == [c \in Chars(a) |-> CHOOSE k \in 1..Len(a) : Char(a, k) = c]

RECURSIVE MapChars(_, _)
\* "".join(F(c) for c in s), computed by halves
MapChars(F(_), s) ==
    IF Len(s) = 0 THEN ""
    ELSE IF Len(s) = 1 THEN F(s)
    ELSE MapChars(F, SubSeq(s, 1, Len(s) \div 2)) \o MapChars(F, SubSeq(s, Len(s) \div 2 + 1, Len(s)))

\* c.lower() of each upper-case letter
LOWER_OF == [c \in Chars(UPPERCASE) |-> Char(LOWERCASE, Positions(UPPERCASE)[c])]

LowerChar(c) == IF c \in DOMAIN LOWER_OF THEN LOWER_OF[c] ELSE c

\* str.lower()
Lower(s) == MapChars(LowerChar, s)

DIGIT_CHARS == Chars(DIGITS)

isdigit(c) == c \in DIGIT_CHARS

DigitOrNothing(c) == IF isdigit(c) THEN c ELSE ""

\* osintnator.digits_only
digits_only(s) == MapChars(DigitOrNothing, s)

\* the `in` operator on str: p occurs in t as a contiguous substring
Contains(t, p) == \E i \in 0..(Len(t) - Len(p)) : SubSeq(t, i + 1, i + Len(p)) = p

\* str.find: offset (from 0) of the first occurrence of p in t, -1 if none
Find(t, p) ==
    IF Contains(t, p)
    THEN CHOOSE i \in 0..(Len(t) - Len(p)) :
            /\ SubSeq(t, i + 1, i + Len(p)) = p
            /\ \A j \in 0..(i - 1) : SubSeq(t, j + 1, j + Len(p)) # p
    ELSE -1

\* s.split(sep)[0]
SplitFirst(s, sep) == IF Find(s, sep) < 0 THEN s ELSE SubSeq(s, 1, Find(s, sep))

RECURSIVE LStrip(_)
LStrip(s) == IF Len(s) > 0 /\ Char(s, 1) = " " THEN LStrip(SubSeq(s, 2, Len(s))) ELSE s

RECURSIVE RStrip(_)
RStrip(s) == IF Len(s) > 0 /\ Char(s, Len(s)) = " " THEN RStrip(SubSeq(s, 1, Len(s) - 1)) ELSE s

\* str.strip() (the inputs of the model hold no whitespace but the space)
Strip(s) == RStrip(LStrip(s))

RECURSIVE Join(_, _)
\* sep.join(parts)
Join(sep, parts) ==
    IF Len(parts) = 0 THEN ""
    ELSE IF Len(parts) = 1 THEN parts[1]
    ELSE parts[1] \o sep \o Join(sep, Tail(parts))

\* [x for x in xs if x]
NonEmpty(xs) == SelectSeq(xs, LAMBDA x : x # "")

\* str(n) for the small naturals of the model
RECURSIVE IntStr(_)
IntStr(n) == IF n < 10 THEN Char(DIGITS, n + 1) ELSE IntStr(n \div 10) \o Char(DIGITS, (n % 10) + 1)

\* urllib.parse.quote_plus on the characters the model's inputs use
QUOTE_SAFE == Chars(UPPERCASE \o LOWERCASE \o DIGITS \o "_.-~")
QUOTE_FROM == "\"():/@;,=?"
QUOTE_TO == <<"%22", "%28", "%29", "%3A", "%2F", "%40", "%3B", "%2C", "%3D", "%3F">>
QUOTED_AS == [c \in Chars(QUOTE_FROM) |-> QUOTE_TO[Positions(QUOTE_FROM)[c]]]

QuoteChar(c) ==
    IF c = " " THEN "+"
    ELSE IF c \in QUOTE_SAFE THEN c
    ELSE IF c \in DOMAIN QUOTED_AS THEN QUOTED_AS[c]
    ELSE "%3F"

quote_plus(s) == MapChars(QuoteChar, s)


\* ------------------------------------------------------------------------
\* dict and JSON primitives
\* ------------------------------------------------------------------------
\* values of a dict of mixed type carry their Python type
S(x) == <<"str", x>>
B(x) == <<"bool", x>>
N(x) == <<"int", x>>

\* k in d
DictHas(d, k) == \E i \in 1..Len(d) : d[i][1] = k

\* d.get(k, default)
DictGet(d, k, default) ==
    IF DictHas(d, k) THEN d[CHOOSE i \in 1..Len(d) : d[i][1] = k][2] ELSE default

\* order of str: code points, over the characters that occur in dict keys
CODEPOINTS == Positions(DIGITS \o UPPERCASE \o "_" \o LOWERCASE)

RECURSIVE StrLess(_, _)
StrLess(a, b) ==
    IF Len(b) = 0 THEN FALSE
    ELSE IF Len(a) = 0 THEN TRUE
    ELSE IF Char(a, 1) = Char(b, 1) THEN StrLess(SubSeq(a, 2, Len(a)), SubSeq(b, 2, Len(b)))
    ELSE CODEPOINTS[Char(a, 1)] < CODEPOINTS[Char(b, 1)]

RECURSIVE Insert(_, _)
\* the sorted list of pairs s with the pair x put at its place
Insert(x, s) ==
    IF Len(s) = 0 THEN <<x>>
    ELSE IF StrLess(x[1], s[1][1]) THEN <<x>> \o s
    ELSE <<s[1]>> \o Insert(x, Tail(s))

RECURSIVE SortedItems(_)
\* sorted(d.items()): the pairs of d by ascending key (keys are distinct)
SortedItems(d) ==
    IF Len(d) = 0 THEN <<>> ELSE Insert(d[1], SortedItems(Tail(d)))

JsonEscapeChar(c) == IF c = "\"" THEN "\\\"" ELSE IF c = "\\" THEN "\\\\" ELSE c

\* JSON encoding of a str (ASCII without control characters)
JsonStr(s) == "\"" \o MapChars(JsonEscapeChar, s) \o "\""

\* JSON encoding of a scalar
JsonScalar(v) ==
    IF v[1] = "str" THEN JsonStr(v[2])
    ELSE IF v[1] = "bool" THEN (IF v[2] THEN "true" ELSE "false")
    ELSE IF v[1] = "int" THEN IntStr(v[2])
    ELSE "null"

\* json.dumps(d) of a flat dict, default separators
JsonDumps(d) ==
    "{" \o Join(", ", [i \in 1..Len(d) |-> JsonStr(d[i][1]) \o ": " \o JsonScalar(d[i][2])]) \o "}"

\* ------------------------------------------------------------------------
\* Catalog (src/osintnator.py), restricted to the sources of the model
\* ------------------------------------------------------------------------
ENGINES ==
    << <<"DuckDuckGo", "https://duckduckgo.com/?q=">>,
       <<"Google", "https://www.google.com/search?q=">> >>

CATS ==
    << <<"People Search", <<"FamilyTreeNow">> >>,
       <<"Reverse Phone / Address", <<"Whitepages (Free Search)", "WhoCallsMe">> >>,
       <<"Property Records & Accessor", <<"Zillow">> >>,
       <<"Specialized / Extra", <<"Username Pack (direct)", "HaveIBeenPwned">> >> >>

SITE_DOMAIN ==
    << <<"FamilyTreeNow", "familytreenow.com">>,
       <<"Whitepages (Free Search)", "whitepages.com">>,
       <<"WhoCallsMe", "whocallsme.com">>,
       <<"Zillow", "zillow.com">>,
       <<"Username Pack (direct)", None>>,
       <<"HaveIBeenPwned", "haveibeenpwned.com">> >>

SITE_URL == << <<"Weibo", "https://s.weibo.com/">> >>

PRIORITY_SITES == <<"Username Pack (direct)", "FamilyTreeNow", "WhoCallsMe", "HaveIBeenPwned">>

\* scrapers.SCRAPERS: the sources with a registered scraper
SCRAPERS == {"Username Pack (direct)", "HaveIBeenPwned", "WhoCallsMe", "FamilyTreeNow"}

\* ------------------------------------------------------------------------
\* OSINTQuery and OSINTHit
\* ------------------------------------------------------------------------
OSINTQuery(first, last, username, email, phone, address1, city, state, zip) ==
    [first |-> first, last |-> last, username |-> username, email |-> email, phone |-> phone,
     address1 |-> address1, city |-> city, state |-> state, zip |-> zip]

OSINTHit(site, title, snippet, url, raw) ==
    [site |-> site, title |-> title, snippet |-> snippet, url |-> url, raw |-> raw]

full_name(q) == Join(" ", NonEmpty(<<Strip(q.first), Strip(q.last)>>))

\* x or ""
OrEmpty(x) == IF x = None THEN "" ELSE x

\* to_ordered_dict handing on the fields as they are
to_ordered_dict_Raw(q) ==
    << <<"first", q.first>>, <<"last", q.last>>, <<"username", q.username>>, <<"email", q.email>>,
       <<"phone", q.phone>>, <<"address1", q.address1>>, <<"city", q.city>>, <<"state", q.state>>,
       <<"zip", q.zip>> >>

to_ordered_dict(q) ==
    << <<"first", OrEmpty(q.first)>>, <<"last", OrEmpty(q.last)>>, <<"username", OrEmpty(q.username)>>,
       <<"email", OrEmpty(q.email)>>, <<"phone", OrEmpty(q.phone)>>, <<"address1", OrEmpty(q.address1)>>,
       <<"city", OrEmpty(q.city)>>, <<"state", OrEmpty(q.state)>>, <<"zip", OrEmpty(q.zip)>> >>

site_base_url(site) ==
    IF DictHas(SITE_URL, site) THEN DictGet(SITE_URL, site, None)
    ELSE LET dom == DictGet(SITE_DOMAIN, site, None)
         IN  IF dom # None /\ dom # "" THEN "https://" \o dom ELSE None

\* `if x: toks.append(f(x))` for each <<x, f(x)>> of the list, in order
AppendIf(pairs) == [i \in 1..Len(SelectSeq(pairs, LAMBDA p : p[1] # "")) |->
                        SelectSeq(pairs, LAMBDA p : p[1] # "")[i][2]]

Quoted(s) == "\"" \o s \o "\""

dork_url(site_label, q, engine) ==
    LET domain == DictGet(SITE_DOMAIN, site_label, None)
        prop_sites == RangeOf(DictGet(CATS, "Property Records & Accessor", <<>>))
        rev_sites == RangeOf(DictGet(CATS, "Reverse Phone / Address", <<>>))
        addr == <<q.address1, Quoted(q.address1)>>
        city == <<q.city, q.city>>
        state == <<q.state, q.state>>
        zip == <<q.zip, q.zip>>
        name == <<full_name(q), Quoted(full_name(q))>>
        phone == <<q.phone, digits_only(q.phone)>>
        email == <<q.email, q.email>>
        user == <<q.username, q.username>>
        toks == IF site_label \in prop_sites
                THEN AppendIf(<<addr, city, state, zip, name, phone, email, user>>)
                ELSE IF site_label \in rev_sites
                THEN AppendIf(<<phone, name, addr, city, state, zip, email, user>>)
                ELSE AppendIf(<<name, user, email, phone, addr, city, state, zip>>)
        hasdom == domain # None /\ domain # ""
        parts == (IF hasdom THEN <<"site:" \o domain>> ELSE <<>>) \o toks
        query_str == IF Len(parts) > 0 THEN Join(" ", parts)
                     ELSE IF hasdom THEN domain ELSE site_label
        base == DictGet(ENGINES, engine, DictGet(ENGINES, "DuckDuckGo", None))
    IN  base \o quote_plus(query_str)

\* json.dumps(d, sort_keys=True) of the canonical dict; sha256 is taken to
\* be injective, so the digest is identified with the payload it hashes
cache_key_for_query(q) ==
    LET d == SortedItems(to_ordered_dict(q))
    IN  "{" \o Join(", ", [i \in 1..Len(d) |-> JsonStr(d[i][1]) \o ": " \o JsonStr(d[i][2])]) \o "}"

cache_path_for_query(q) == "reports/cache/" \o cache_key_for_query(q) \o ".json"


\* ------------------------------------------------------------------------
\* Dataset provider (src/datasets.py)
\* ------------------------------------------------------------------------
DATASET_ENGINES ==
    << <<"DuckDuckGo", "https://duckduckgo.com/?q=">>,
       <<"Google", "https://www.google.com/search?q=">>,
       <<"Bing", "https://www.bing.com/search?q=">>,
       <<"GitHub code", "https://github.com/search?q=">> >>

HINT ==
    [site |-> "Hint", title |-> "Common Crawl (index) / BigQuery hint",
     snippet |-> "Use Common Crawl index or BigQuery to fetch page text; BigQuery can be queried from console",
     url |-> "https://commoncrawl.org/"]

\* the dicts of `out`: four engine links, then the hint (which has no raw)
construct_search_links_for_site(site_label, site_domain, q) ==
    LET fullname == Strip(Join(" ", <<Strip(DictGet(q, "first", "")), Strip(DictGet(q, "last", ""))>>))
        tokens == AppendIf(<< <<fullname, Quoted(fullname)>>,
                              <<DictGet(q, "username", ""), DictGet(q, "username", "")>>,
                              <<DictGet(q, "email", ""), DictGet(q, "email", "")>>,
                              <<DictGet(q, "phone", ""), digits_only(DictGet(q, "phone", ""))>> >>)
        hasdom == site_domain # None /\ site_domain # ""
        dork == IF hasdom
                THEN (IF Len(tokens) > 0 THEN Join(" ", <<"site:" \o site_domain>> \o tokens)
                      ELSE "site:" \o site_domain)
                ELSE (IF Len(tokens) > 0 THEN Join(" ", tokens) ELSE site_label)
        link(i) == LET name == DATASET_ENGINES[i][1]
                       base == DATASET_ENGINES[i][2]
                       qstr == IF name # "GitHub code" THEN quote_plus(dork)
                               ELSE quote_plus(Join(" ", tokens))
                   IN  [site |-> "Search Link", title |-> name \o " search", snippet |-> dork,
                        url |-> base \o qstr, raw |-> << <<"engine", S(name)>> >>]
    IN  [i \in 1..Len(DATASET_ENGINES) |-> link(i)] \o <<HINT>>

\* search_for_site with site_domain None, the only way this program calls
\* it: the Wayback and crt.sh lookups need a domain and are skipped
search_for_site(site_label, site_domain, qdict) ==
    LET links == construct_search_links_for_site(site_label, site_domain, qdict)
    IN  [i \in 1..Len(links) |-> [links[i] EXCEPT !.site = site_label \o " (Search link)"]]

\* what the provider does on one call: "ok" runs search_for_site, "fault"
\* is search_for_site raising (caught inside, the site is skipped) and
\* "raise" is the call itself raising into its caller
ProviderOutcomes == {"ok", "fault", "raise"}

\* search_sites_for_query handing back the links although the lookup failed
search_sites_for_query_Stale(label, qdict, outcome) == search_for_site(label, None, qdict)

\* search_sites_for_query on the one-entry list [{"label": s}]
search_sites_for_query(label, qdict, outcome) ==
    IF outcome = "ok" THEN search_for_site(label, None, qdict)
    ELSE <<>>

\* ------------------------------------------------------------------------
\* Dataset prefilter of App._background_run, pure parts
\* ------------------------------------------------------------------------
\* QueryTokens with the phone taken as typed, not its digits
QueryTokens_RawPhone(q) ==
    LET name == IF full_name(q) # ""
                THEN <<Lower(full_name(q))>> \o AppendIf(<< <<q.first, Lower(q.first)>>, <<q.last, Lower(q.last)>> >>)
                ELSE <<>>
        token_candidates ==
            name \o AppendIf(<< <<q.username, Lower(q.username)>>, <<q.email, Lower(q.email)>>,
                                <<q.phone, q.phone>>,
                                <<q.address1, Lower(q.address1)>>, <<q.city, Lower(q.city)>>,
                                <<q.state, Lower(q.state)>>, <<q.zip, Lower(q.zip)>> >>)
    IN  SelectSeq(token_candidates, LAMBDA t : t # "")

\* token_candidates, then the dedupe
QueryTokens(q) ==
    LET name == IF full_name(q) # ""
                THEN <<Lower(full_name(q))>> \o AppendIf(<< <<q.first, Lower(q.first)>>, <<q.last, Lower(q.last)>> >>)
                ELSE <<>>
        phone == IF q.phone # "" /\ digits_only(q.phone) # "" THEN <<digits_only(q.phone)>> ELSE <<>>
        token_candidates ==
            name \o AppendIf(<< <<q.username, Lower(q.username)>>, <<q.email, Lower(q.email)>> >>)
                 \o phone
                 \o AppendIf(<< <<q.address1, Lower(q.address1)>>, <<q.city, Lower(q.city)>>,
                                <<q.state, Lower(q.state)>>, <<q.zip, Lower(q.zip)>> >>)
        keep == {i \in 1..Len(token_candidates) :
                    /\ token_candidates[i] # ""
                    /\ \A j \in 1..(i - 1) : token_candidates[j] # token_candidates[i]}
        RECURSIVE pick(_)
        pick(i) == IF i > Len(token_candidates) THEN <<>>
                   ELSE (IF i \in keep THEN <<token_candidates[i]>> ELSE <<>>) \o pick(i + 1)
    IN  pick(1)

\* the per-site payload
site_qdict(s, q) ==
    LET prop_sites == RangeOf(DictGet(CATS, "Property Records & Accessor", <<>>))
        rev_sites == RangeOf(DictGet(CATS, "Reverse Phone / Address", <<>>))
    IN  IF s \in prop_sites
        THEN << <<"address1", q.address1>>, <<"city", q.city>>, <<"state", q.state>>, <<"zip", q.zip>>,
                <<"first", q.first>>, <<"last", q.last>> >>
        ELSE IF s \in rev_sites
        THEN << <<"phone", q.phone>>, <<"first", q.first>>, <<"last", q.last>>, <<"address1", q.address1>> >>
        ELSE to_ordered_dict(q)

\* `combined` of a dataset hit
Combined(dh) ==
    Join(" ", <<Lower(dh.title), Lower(dh.snippet), Lower(dh.url),
                Lower(JsonDumps(IF "raw" \in DOMAIN dh THEN dh.raw ELSE <<>>))>>)

\* Matched without the containment test: any hit passes once there is a token
Matched_NoFilter(dh, tokens) == Len(tokens) > 0

\* `matched`: some token occurs in combined
Matched(dh, tokens) == \E i \in 1..Len(tokens) : tokens[i] # "" /\ Contains(Combined(dh), tokens[i])

\* lines 715-717: the OSINTHit made of an accepted dataset hit
DatasetHit(dh) ==
    OSINTHit(SplitFirst(dh.site, " ("), dh.title, dh.snippet, dh.url,
             IF "raw" \in DOMAIN dh THEN dh.raw ELSE <<>>)

\* `matched` of each hit of ds_hits
MatchedFlags(ds_hits, tokens) == [i \in 1..Len(ds_hits) |-> Matched(ds_hits[i], tokens)]

RECURSIVE AcceptedHits(_, _, _)
\* the accepted hits of ds_hits[i..], as OSINTHit, in order
AcceptedHits(ds_hits, flags, i) ==
    IF i > Len(ds_hits) THEN <<>>
    ELSE (IF flags[i] THEN <<DatasetHit(ds_hits[i])>> ELSE <<>>) \o AcceptedHits(ds_hits, flags, i + 1)


\* ------------------------------------------------------------------------
\* Cache files (src/osintnator.py)
\* ------------------------------------------------------------------------
\* asdict leaving the raw of the hit out
asdict_NoRaw(h) ==
    << <<"site", h.site>>, <<"title", h.title>>, <<"snippet", h.snippet>>, <<"url", h.url>>,
       <<"raw", <<>> >> >>

\* dataclasses.asdict(h), the JSON object written for a hit
asdict(h) ==
    << <<"site", h.site>>, <<"title", h.title>>, <<"snippet", h.snippet>>, <<"url", h.url>>,
       <<"raw", h.raw>> >>

\* OSINTHit(**h) of a JSON object read back
FromDict(o) ==
    OSINTHit(DictGet(o, "site", None), DictGet(o, "title", None), DictGet(o, "snippet", None),
             DictGet(o, "url", None), DictGet(o, "raw", <<>>))

\* a file that holds a complete JSON document, and one that does not parse
JsonFile(data) == [ok |-> TRUE, data |-> data]
CorruptFile == [ok |-> FALSE, data |-> <<>>]

\* how a read, a write or a removal of a cache file can go
ReadOutcomes == {"ok", "fault"}
WriteOutcomes == {"ok", "open_fault", "dump_fault"}
RemoveOutcomes == {"ok", "fault"}

\* os.path.exists(cache_path_for_query(q))
HasEntry(fs, q) == cache_path_for_query(q) \in DOMAIN fs

\* load_cache looking for the entry under the key without the .json suffix
load_cache_NoSuffix(fs, q, outcome) ==
    LET path == "reports/cache/" \o cache_key_for_query(q)
    IN  IF path \notin DOMAIN fs THEN <<>>
        ELSE IF outcome = "ok" /\ fs[path].ok
        THEN [i \in 1..Len(fs[path].data) |-> FromDict(fs[path].data[i])]
        ELSE <<>>

\* load_cache handing back what the file holds, however the read went
load_cache_NoGuard(fs, q, outcome) ==
    LET path == cache_path_for_query(q)
    IN  IF path \notin DOMAIN fs THEN <<>>
        ELSE [i \in 1..Len(fs[path].data) |-> FromDict(fs[path].data[i])]

\* load_cache: the hits of the entry, [] when the file is missing, cannot be
\* read or does not parse
load_cache(fs, q, outcome) ==
    LET path == cache_path_for_query(q)
    IN  IF path \notin DOMAIN fs THEN <<>>
        ELSE IF outcome = "ok" /\ fs[path].ok
        THEN [i \in 1..Len(fs[path].data) |-> FromDict(fs[path].data[i])]
        ELSE <<>>

\* SaveCacheFiles writing the first hit only
SaveCacheFiles_FirstOnly(fs, path, hits, outcome) ==
    IF outcome = "ok" THEN (path :> JsonFile(<<asdict(hits[1])>>)) @@ [p \in DOMAIN fs \ {path} |-> fs[p]]
    ELSE IF outcome = "dump_fault" THEN (path :> CorruptFile) @@ [p \in DOMAIN fs \ {path} |-> fs[p]]
    ELSE fs

\* the files after save_cache, path being cache_path_for_query(q):
\* open(path, "w") truncates, json.dump writes
SaveCacheFiles(fs, path, hits, outcome) ==
    LET others == [p \in DOMAIN fs \ {path} |-> fs[p]]
    IN  IF outcome = "ok" THEN (path :> JsonFile([i \in 1..Len(hits) |-> asdict(hits[i])])) @@ others
        ELSE IF outcome = "dump_fault" THEN (path :> CorruptFile) @@ others
        ELSE fs

\* the return value of save_cache, path being cache_path_for_query(q)
save_cache(path, outcome) == IF outcome = "ok" THEN path ELSE ""

\* clear_cache_for_query leaving the entry where it is
ClearCacheFiles_Keep(fs, q, outcome) == fs

\* ClearCacheFiles emptying the cache directory
ClearCacheFiles_All(fs, q, outcome) ==
    IF cache_path_for_query(q) \in DOMAIN fs /\ outcome = "ok" THEN [p \in {} |-> CorruptFile] ELSE fs

\* the files after clear_cache_for_query
ClearCacheFiles(fs, q, outcome) ==
    LET path == cache_path_for_query(q)
    IN  IF path \in DOMAIN fs /\ outcome = "ok" THEN [p \in DOMAIN fs \ {path} |-> fs[p]] ELSE fs

\* the return value of clear_cache_for_query
clear_cache_for_query(fs, q, outcome) == cache_path_for_query(q) \in DOMAIN fs /\ outcome = "ok"

\* ------------------------------------------------------------------------
\* Scrapers (src/scrapers.py)
\* ------------------------------------------------------------------------
\* what the registered function of a source does on one invocation
ScraperResults == {"hits", "empty", "raise"}

\* the n hits a scraper returns (probe_site_for_terms shape)
ScraperHits(site, n) ==
    [i \in 1..n |-> OSINTHit(site, "probe -> " \o IntStr(i), "body " \o IntStr(i),
                             "https://probe/" \o IntStr(i), << <<"probed", B(TRUE)>> >>)]

\* run_scraper handing back the hits gathered before the scraper raised
run_scraper_Partial(site, result, n) ==
    IF site \notin SCRAPERS THEN <<>>
    ELSE IF result \in {"hits", "raise"} THEN ScraperHits(site, n)
    ELSE <<>>

\* run_scraper: [] when no scraper is registered, when it returns nothing
\* and when it raises
run_scraper(site, result, n) ==
    IF site \notin SCRAPERS THEN <<>>
    ELSE IF result = "hits" THEN ScraperHits(site, n)
    ELSE <<>>


\* ------------------------------------------------------------------------
\* Inputs: queries, source lists, sessions of the user
\* ------------------------------------------------------------------------
EmptyQuery == OSINTQuery("", "", "", "", "", "", "", "", "")

\* the queries of the model: nothing, a phone without digits, a username,
\* a name
Queries ==
    { EmptyQuery,
      [EmptyQuery EXCEPT !.phone = "(-)"],
      [EmptyQuery EXCEPT !.username = "Al"],
      [EmptyQuery EXCEPT !.first = "Jo", !.last = "Li"] }

SiteUniverse == {"Username Pack (direct)", "FamilyTreeNow", "Zillow"}

\* the lists of distinct sources of length 1..n
SiteLists(n) ==
    UNION {{l \in [1..k -> SiteUniverse] : \A i, j \in 1..k : i # j => l[i] # l[j]} : k \in 1..n}

\* a click on a run button: the form, the selection and the header settings
Request(q, sites, skip_cache) ==
    [q |-> q, sites |-> sites, skip_cache |-> skip_cache,
     threads_var |-> 16, timeout_var |-> 12, engine_var |-> "DuckDuckGo"]

\* one run, over every query and every list of up to MaxSites sources
SingleRunPlans == {<<Request(q, l, FALSE)>> : q \in Queries, l \in SiteLists(MaxSites)}

RerunQueries == {[EmptyQuery EXCEPT !.username = "Al"], EmptyQuery}
RerunLists == {<<"FamilyTreeNow">>, <<"Zillow">>}
RerunRequests == {Request(q, l, b) : q \in RerunQueries, l \in RerunLists, b \in BOOLEAN}

\* two runs, one after the other; the first finds no cache to bypass
RerunPlans == {<<a, b>> \in RerunRequests \X RerunRequests : ~a.skip_cache}

\* values of the timeout field of the header: below the floor of line 610,
\* above the floor of line 753, and above the range of the spinbox of
\* line 353, which a typed value can leave
TimeoutValues == {-5, 1, 25, 75}

\* one run with the timeout field changed
TimeoutPlans ==
    {<<[Request(EmptyQuery, <<"Zillow", "Username Pack (direct)">>, FALSE) EXCEPT !.timeout_var = tv]>> :
        tv \in TimeoutValues}

\* values of the threads field of the header, in and out of the range of the
\* spinbox of line 351
ThreadValues == {-3, 1, 100}

\* one run with the threads field changed; the run over three sources has
\* more tasks than workers
ThreadPlans ==
    {<<[Request(EmptyQuery, IF tv = 1 THEN <<"Zillow", "FamilyTreeNow", "Username Pack (direct)">>
                            ELSE <<"Zillow">>, FALSE) EXCEPT !.threads_var = tv]>> :
        tv \in ThreadValues}

\* a run that stores the hits of one source, then two runs of the same query
\* that select another source each, the last with another engine
SharedCachePlans ==
    {<<Request(q, <<"FamilyTreeNow">>, FALSE),
       Request(q, <<"Zillow">>, FALSE),
       [Request(q, <<"Username Pack (direct)">>, FALSE) EXCEPT !.engine_var = "Google"]>> :
        q \in RerunQueries}

Plans == SingleRunPlans \cup RerunPlans \cup TimeoutPlans \cup ThreadPlans \cup SharedCachePlans

\* ------------------------------------------------------------------------
\* State
\* ------------------------------------------------------------------------
VARIABLES
    plan,   \* the requests the user has still to make, in order
    files,  \* CACHE_DIR: path -> file content
    runs,   \* the threads started by _run_sites, in start order, each with
            \* the locals of its _background_run and what it did so far
    faults, \* the faults of the environment so far
    app     \* what the App object shares with the interactive thread: the
            \* event queue, the result list, the progress bar and the status;
            \* processed is the record of the entries taken off the queue

vars == <<plan, files, runs, faults, app>>

Runs == 1..Len(runs)

\* an event put on ui_queue; the text of a note is cut to a tag
Note(tag) == <<"note", tag>>

\* locals of _background_run before line 607, records of what the run did
NewRun(req) ==
    [pc |-> "cache", q |-> req.q, sites |-> req.sites, skip_cache |-> req.skip_cache,
     threads_var |-> req.threads_var, timeout_var |-> req.timeout_var, engine_var |-> req.engine_var,
     total |-> 0, threads |-> 0, timeout |-> 0, engine |-> "",
     ordered_sites |-> <<>>, tokens |-> <<>>, idx |-> 1,
     satisfied_sites |-> {}, results_from_datasets |-> <<>>, sites_to_scrape |-> <<>>,
     results |-> <<>>, future_map |-> <<>>, ui_queue |-> <<>>,
     cache_hits |-> <<>>, ds_calls |-> <<>>, ds_accepted |-> {}, ds_failed |-> {},
     scraper_calls |-> <<>>,
     selected |-> RangeOf(req.sites), reordered |-> FALSE, cache_read |-> "",
     origin |-> <<>>, saved |-> <<>>]

Finished(r) == runs[r].pc \in {"done", "crashed"}

\* max giving the lesser argument
Max_Lesser(a, b) == IF a >= b THEN b ELSE a

\* max that stops at 60
Max_Capped(a, b) == IF (IF a >= b THEN a ELSE b) > 60 THEN 60 ELSE (IF a >= b THEN a ELSE b)

Max(a, b) == IF a >= b THEN a ELSE b
Min(a, b) == IF a <= b THEN a ELSE b

\* the outcomes the environment may still produce: all of them while faults
\* are left, the fault-free one after
Allowed(outcomes, good) == IF faults < MaxFaults THEN outcomes ELSE good

\* the fault count after an outcome
Count(outcome, good) == IF outcome \in good THEN faults ELSE faults + 1

\* App.__init__: an empty queue, no results, a bar of 0 out of 100.  An
\* entry of the queue is the event put, with the run that put it and the
\* number of the put; `processed` is what _process_ui_queue has taken so far
AppInit ==
    [ui_queue |-> <<>>, results |-> <<>>, maximum |-> 100, value |-> 0, status |-> "ready",
     processed |-> <<>>]

Init ==
    /\ app = AppInit
    /\ plan \in Plans
    /\ files = [p \in {} |-> CorruptFile]
    /\ runs = <<>>
    /\ faults = 0

\* _run_sites: the user starts a run once the previous one has ended
RunSites ==
    /\ plan # <<>>
    /\ \A r \in Runs : Finished(r)
    /\ runs' = Append(runs, NewRun(Head(plan)))
    /\ plan' = Tail(plan)
    /\ UNCHANGED <<files, faults>>

\* OrderedSites without the priority pass
OrderedSites_InputOrder(sites) == sites

\* OrderedSites with the priority sources kept in their input order
OrderedSites_Stable(sites) ==
    SelectSeq(sites, LAMBDA s : s \in RangeOf(PRIORITY_SITES))
        \o SelectSeq(sites, LAMBDA s : s \notin RangeOf(PRIORITY_SITES))

\* prioritized + remaining
OrderedSites(sites) ==
    LET prioritized == SelectSeq(PRIORITY_SITES, LAMBDA s : s \in RangeOf(sites))
        remaining == SelectSeq(sites, LAMBDA s : s \notin RangeOf(prioritized))
    IN  prioritized \o remaining

\* Setup announcing the number of sources that have a scraper
Setup_ScrapersOnly(run, notes) ==
    [run EXCEPT
        !.pc = "prefilter",
        !.sites = <<>>,
        !.reordered = OrderedSites(run.sites) # run.sites,
        !.total = Len(run.sites),
        !.threads = Max(2, Min(40, run.threads_var)),
        !.timeout = Max(3, run.timeout_var),
        !.engine = IF DictHas(ENGINES, run.engine_var) THEN run.engine_var ELSE "DuckDuckGo",
        !.ordered_sites = OrderedSites(run.sites),
        !.sites_to_scrape = OrderedSites(run.sites),
        !.tokens = QueryTokens(run.q),
        !.ui_queue = @ \o notes \o << <<"setup_progress", Len(SelectSeq(run.sites, LAMBDA x : x \in SCRAPERS))>>, Note("datasets first") >>]

\* lines 607-650: the locals set up once the cache was not used; `sites` is
\* read for the last time in line 615
Setup(run, notes) ==
    [run EXCEPT
        !.pc = "prefilter",
        !.sites = <<>>,
        !.reordered = OrderedSites(run.sites) # run.sites,
        !.total = Len(run.sites),
        !.threads = Max(2, Min(40, run.threads_var)),
        !.timeout = Max(3, run.timeout_var),
        !.engine = IF DictHas(ENGINES, run.engine_var) THEN run.engine_var ELSE "DuckDuckGo",
        !.ordered_sites = OrderedSites(run.sites),
        !.sites_to_scrape = OrderedSites(run.sites),
        !.tokens = QueryTokens(run.q),
        !.ui_queue = @ \o notes \o << <<"setup_progress", Len(run.sites)>>, Note("datasets first") >>]

\* CacheLookup keeping the cached hits of the selected sources only
CacheLookup_Selected(r) ==
    /\ runs[r].pc = "cache"
    /\ ~runs[r].skip_cache
    /\ \E o \in (IF HasEntry(files, runs[r].q) THEN Allowed(ReadOutcomes, {"ok"}) ELSE {"ok"}) :
        LET cache_hits == SelectSeq(load_cache(files, runs[r].q, o), LAMBDA h : h.site \in RangeOf(runs[r].sites))
        IN  /\ runs' = [runs EXCEPT ![r] =
                    IF Len(cache_hits) > 0
                    THEN [@ EXCEPT !.pc = "done",
                                   !.cache_read = o,
                                   !.cache_hits = cache_hits,
                                   !.ui_queue = @ \o <<Note("cache")>>
                                                  \o [i \in 1..Len(cache_hits) |-> <<"hit", cache_hits[i]>>]
                                                  \o << <<"done", Len(cache_hits)>> >>]
                    ELSE Setup([@ EXCEPT !.cache_read = o], <<>>)]
            /\ faults' = Count(o, {"ok"})
    /\ UNCHANGED <<plan, files>>

\* lines 592-597: the cache is read; its hits, if any, end the run
CacheLookup(r) ==
    /\ runs[r].pc = "cache"
    /\ ~runs[r].skip_cache
    /\ \E o \in (IF HasEntry(files, runs[r].q) THEN Allowed(ReadOutcomes, {"ok"}) ELSE {"ok"}) :
        LET cache_hits == load_cache(files, runs[r].q, o)
        IN  /\ runs' = [runs EXCEPT ![r] =
                    IF Len(cache_hits) > 0
                    THEN [@ EXCEPT !.pc = "done",
                                   !.cache_read = o,
                                   !.cache_hits = cache_hits,
                                   !.ui_queue = @ \o <<Note("cache")>>
                                                  \o [i \in 1..Len(cache_hits) |-> <<"hit", cache_hits[i]>>]
                                                  \o << <<"done", Len(cache_hits)>> >>]
                    ELSE Setup([@ EXCEPT !.cache_read = o], <<>>)]
            /\ faults' = Count(o, {"ok"})
    /\ UNCHANGED <<plan, files>>

\* lines 598-605: a bypass removes the entry of the query first
CacheBypass(r) ==
    /\ runs[r].pc = "cache"
    /\ runs[r].skip_cache
    /\ \E o \in (IF HasEntry(files, runs[r].q) THEN Allowed(RemoveOutcomes, {"ok"}) ELSE {"ok"}) :
        /\ files' = ClearCacheFiles(files, runs[r].q, o)
        /\ runs' = [runs EXCEPT ![r] =
                Setup(@, IF clear_cache_for_query(files, runs[r].q, o) THEN <<Note("cache cleared")>> ELSE <<>>)]
        /\ faults' = Count(o, {"ok"})
    /\ UNCHANGED plan

\* lines 653-722, one iteration of `for s in ordered_sites`
Prefilter(r) ==
    LET run == runs[r]
        s == run.ordered_sites[run.idx]
    IN  /\ run.pc = "prefilter"
        /\ run.idx <= Len(run.ordered_sites)
        /\ IF Len(run.tokens) = 0
           THEN /\ runs' = [runs EXCEPT ![r] = [@ EXCEPT
                        !.idx = @ + 1,
                        !.ui_queue = Append(@, Note("skipping datasets"))]]
                /\ UNCHANGED faults
           ELSE \E o \in Allowed(ProviderOutcomes, {"ok"}) :
                LET ds_hits == search_sites_for_query(s, site_qdict(s, run.q), o)
                    flags == MatchedFlags(ds_hits, run.tokens)
                    hits == AcceptedHits(ds_hits, flags, 1)
                    failed == IF o = "raise" THEN <<Note("datasets failed")>> ELSE <<>>
                    report(i) == IF flags[i] THEN <<"hit", DatasetHit(ds_hits[i])>> ELSE Note("datasets skip")
                IN  /\ runs' = [runs EXCEPT ![r] = [@ EXCEPT
                            !.idx = @ + 1,
                            !.ds_calls = Append(@, s),
                            !.ds_accepted = IF Len(hits) > 0 THEN @ \cup {s} ELSE @,
                            !.ds_failed = IF o # "ok" THEN @ \cup {s} ELSE @,
                            !.results_from_datasets = @ \o hits,
                            !.origin = @ \o [i \in 1..Len(hits) |-> [src |-> s, via |-> "dataset"]],
                            !.satisfied_sites = @ \cup {hits[i].site : i \in 1..Len(hits)},
                            !.ui_queue = @ \o failed \o [i \in 1..Len(ds_hits) |-> report(i)]]]
                    /\ faults' = Count(o, {"ok"})
        /\ UNCHANGED <<plan, files>>

\* AfterPrefilter not waiting for the end of the prefilter loop
AfterPrefilter_Early(r) ==
    LET run == runs[r]
        sites_to_scrape == IF run.satisfied_sites # {}
                           THEN SelectSeq(run.ordered_sites, LAMBDA s : s \notin run.satisfied_sites)
                           ELSE run.sites_to_scrape
        note == IF run.satisfied_sites # {} THEN Note("satisfied") ELSE Note("no dataset hits")
    IN  /\ run.pc = "prefilter"
        /\ run.idx > 1
        /\ runs' = [runs EXCEPT ![r] = [@ EXCEPT
                !.pc = IF Len(sites_to_scrape) = 0 THEN "datasets_only" ELSE "submit",
                !.sites_to_scrape = sites_to_scrape,
                !.results = @ \o run.results_from_datasets,
                !.ui_queue = Append(@, note)]]
        /\ UNCHANGED <<plan, files, faults>>

\* lines 724-736: the satisfied sources leave the live-scrape list and the
\* dataset hits open the results
AfterPrefilter(r) ==
    LET run == runs[r]
        sites_to_scrape == IF run.satisfied_sites # {}
                           THEN SelectSeq(run.ordered_sites, LAMBDA s : s \notin run.satisfied_sites)
                           ELSE run.sites_to_scrape
        note == IF run.satisfied_sites # {} THEN Note("satisfied") ELSE Note("no dataset hits")
    IN  /\ run.pc = "prefilter"
        /\ run.idx > Len(run.ordered_sites)
        /\ runs' = [runs EXCEPT ![r] = [@ EXCEPT
                !.pc = IF Len(sites_to_scrape) = 0 THEN "datasets_only" ELSE "submit",
                !.sites_to_scrape = sites_to_scrape,
                !.results = @ \o run.results_from_datasets,
                !.ui_queue = Append(@, note)]]
        /\ UNCHANGED <<plan, files, faults>>

\* what save_reports does: it writes the three reports or it raises
ReportOutcomes == {"ok", "fault"}

\* EndOfRun reporting the number of tasks in the done event
EndOfRun_CountsTasks(r, notes) ==
    LET run == runs[r]
        write == Len(run.results) > 0
        path == cache_path_for_query(run.q)
        cached == IF write THEN <<Note("saved cache")>> ELSE <<>>
        nothing == IF Len(run.results) = 0 THEN <<Note("no results"), Note("registered scrapers")>> ELSE <<>>
    IN  \E wo \in (IF write THEN Allowed(WriteOutcomes, {"ok"}) ELSE {"ok"}) :
        \E ro \in (IF wo = "ok" THEN Allowed(ReportOutcomes, {"ok"}) ELSE {"ok"}) :
            /\ files' = IF write THEN SaveCacheFiles(files, path, run.results, wo) ELSE files
            /\ runs' = [runs EXCEPT ![r] = [@ EXCEPT
                    !.saved = IF write THEN Append(@, save_cache(path, wo)) ELSE @,
                    !.pc = IF ro = "ok" THEN "done" ELSE "crashed",
                    !.ui_queue = IF ro = "ok"
                                 THEN @ \o notes \o cached \o <<Note("saved reports")>> \o nothing
                                        \o << <<"done", Len(run.future_map)>> >>
                                 ELSE @ \o notes \o cached]]
            /\ faults' = IF wo = "ok" /\ ro = "ok" THEN faults ELSE faults + 1
            /\ UNCHANGED plan

\* the end of a run with `results`: cache, reports, done.  A fault of
\* save_reports is not caught and ends the thread.
EndOfRun(r, notes) ==
    LET run == runs[r]
        write == Len(run.results) > 0
        path == cache_path_for_query(run.q)
        cached == IF write THEN <<Note("saved cache")>> ELSE <<>>
        nothing == IF Len(run.results) = 0 THEN <<Note("no results"), Note("registered scrapers")>> ELSE <<>>
    IN  \E wo \in (IF write THEN Allowed(WriteOutcomes, {"ok"}) ELSE {"ok"}) :
        \E ro \in (IF wo = "ok" THEN Allowed(ReportOutcomes, {"ok"}) ELSE {"ok"}) :
            /\ files' = IF write THEN SaveCacheFiles(files, path, run.results, wo) ELSE files
            /\ runs' = [runs EXCEPT ![r] = [@ EXCEPT
                    !.saved = IF write THEN Append(@, save_cache(path, wo)) ELSE @,
                    !.pc = IF ro = "ok" THEN "done" ELSE "crashed",
                    !.ui_queue = IF ro = "ok"
                                 THEN @ \o notes \o cached \o <<Note("saved reports")>> \o nothing
                                        \o << <<"done", Len(run.results)>> >>
                                 ELSE @ \o notes \o cached]]
            /\ faults' = IF wo = "ok" /\ ro = "ok" THEN faults ELSE faults + 1
            /\ UNCHANGED plan

\* lines 736-744: every source was satisfied by the datasets
FinishDatasetsOnly(r) ==
    /\ runs[r].pc = "datasets_only"
    /\ EndOfRun(r, <<Note("all satisfied")>>)

\* lines 750-755, one iteration: the task of the next source is submitted
Submit(r) ==
    LET run == runs[r]
        i == Len(run.future_map) + 1
        site == run.sites_to_scrape[i]
        site_timeout == IF site = "Username Pack (direct)" THEN Max(run.timeout, 20) ELSE run.timeout
    IN  /\ run.pc = "submit"
        /\ runs' = [runs EXCEPT ![r] = [@ EXCEPT
                !.future_map = Append(@, [site |-> site, timeout |-> site_timeout, state |-> "pending",
                                          outcome |-> "", hits |-> <<>>, how |-> ""]),
                !.pc = IF i = Len(run.sites_to_scrape) THEN "collect" ELSE "submit"]]
        /\ UNCHANGED <<plan, files, faults>>

Tasks(r) == 1..Len(runs[r].future_map)

\* Busy with the worker of a task that timed out free at once
Busy_RunningOnly(r) == {t \in 1..Len(runs[r].future_map) : runs[r].future_map[t].state = "running"}

\* workers of the pool that are inside _run_site_with_timeout
Busy(r) == {t \in Tasks(r) : runs[r].future_map[t].state \in {"running", "abandoned"}}

\* a worker is free and task t is the oldest task waiting
CanStart(r, t) ==
    /\ runs[r].pc \in {"submit", "collect"}
    /\ runs[r].future_map[t].state = "pending"
    /\ \A u \in 1..(t - 1) : runs[r].future_map[u].state # "pending"
    /\ Cardinality(Busy(r)) < runs[r].threads

\* lines 282-284: a worker takes the task; run_scraper is started in the
\* one-thread executor
TaskStart(r, t) ==
    /\ CanStart(r, t)
    /\ runs' = [runs EXCEPT ![r] = [@ EXCEPT
            !.future_map[t].state = "running",
            !.scraper_calls = Append(@, runs[r].future_map[t].site)]]
    /\ UNCHANGED <<plan, files, faults>>

\* line 282: get_session raises before anything is submitted
SessionFault(r, t) ==
    /\ CanStart(r, t)
    /\ faults < MaxFaults
    /\ runs' = [runs EXCEPT ![r] = [@ EXCEPT
            !.future_map[t].state = "finished",
            !.future_map[t].outcome = "error",
            !.future_map[t].how = "session"]]
    /\ faults' = faults + 1
    /\ UNCHANGED <<plan, files>>

\* line 286: run_scraper returns within the timeout
ScraperReturn(r, t) ==
    LET task == runs[r].future_map[t]
    IN  /\ task.state = "running"
        /\ \E result \in (IF task.site \in SCRAPERS THEN Allowed(ScraperResults, {"hits", "empty"}) ELSE {"absent"}),
              n \in 1..MaxHits :
            /\ runs' = [runs EXCEPT ![r] = [@ EXCEPT
                    !.future_map[t].state = "finished",
                    !.future_map[t].outcome = "returned",
                    !.future_map[t].hits = run_scraper(task.site, result, n),
                    !.future_map[t].how = result]]
            /\ faults' = Count(result, {"hits", "empty", "absent"})
        /\ UNCHANGED <<plan, files>>

\* line 287: the timeout passes first; fut.result raises TimeoutError and
\* the `with` block starts to leave, which waits for the executor's thread
DeadlinePass(r, t) ==
    /\ runs[r].future_map[t].state = "running"
    /\ faults < MaxFaults
    /\ runs' = [runs EXCEPT ![r] = [@ EXCEPT !.future_map[t].state = "abandoned"]]
    /\ faults' = faults + 1
    /\ UNCHANGED <<plan, files>>

\* line 283, __exit__ of the executor: run_scraper returns at last, its
\* result stays in the inner future and TimeoutError reaches the task's
\* future
AbandonedReturn(r, t) ==
    LET task == runs[r].future_map[t]
    IN  /\ task.state = "abandoned"
        /\ \E result \in (IF task.site \in SCRAPERS THEN {"hits", "empty"} ELSE {"absent"}), n \in 1..MaxHits :
            runs' = [runs EXCEPT ![r] = [@ EXCEPT
                !.future_map[t].state = "finished",
                !.future_map[t].outcome = "timeout",
                !.future_map[t].hits = run_scraper(task.site, result, n),
                !.future_map[t].how = "late"]]
        /\ UNCHANGED <<plan, files, faults>>

\* FallbackHits with the dork link left out when there is no home page
FallbackHits_HomeOnly(site, q, engine, label, snippet, tag) ==
    IF site_base_url(site) = None THEN <<>>
    ELSE <<OSINTHit(site, site \o " (" \o label \o "open site)", snippet, site_base_url(site),
                    tag \o << <<"fallback", S("home")>> >>),
           OSINTHit(site, site \o " (" \o (IF label = "" THEN "search dork" ELSE label \o "dork") \o ")",
                    snippet, dork_url(site, q, engine), tag \o << <<"fallback", S("dork")>> >>)>>

\* FallbackHits with the marker of the cause left out of the dork link
FallbackHits_Untagged(site, q, engine, label, snippet, tag) ==
    (IF site_base_url(site) # None
     THEN <<OSINTHit(site, site \o " (" \o label \o "open site)", snippet, site_base_url(site),
                     tag \o << <<"fallback", S("home")>> >>)>>
     ELSE <<>>)
    \o <<OSINTHit(site, site \o " (" \o (IF label = "" THEN "search dork" ELSE label \o "dork") \o ")",
                  snippet, dork_url(site, q, engine), << <<"fallback", S("dork")>> >>)>>

\* the hits of lines 766-772, 775-781 and 784-790
FallbackHits(site, q, engine, label, snippet, tag) ==
    LET home == site_base_url(site)
        dork == dork_url(site, q, engine)
    IN  (IF home # None
         THEN <<OSINTHit(site, site \o " (" \o label \o "open site)", snippet, home,
                         tag \o << <<"fallback", S("home")>> >>)>>
         ELSE <<>>)
        \o <<OSINTHit(site, site \o " (" \o (IF label = "" THEN "search dork" ELSE label \o "dork") \o ")",
                      IF label = "" THEN "No scraper results - try search." ELSE snippet, dork,
                      tag \o << <<"fallback", S("dork")>> >>)>>

\* Collect with the progress increment inside the try block: none after a
\* timeout or an error
Collect_ProgressInTry(r, t) ==
    LET run == runs[r]
        task == run.future_map[t]
        new == IF task.outcome = "returned" /\ Len(task.hits) > 0 THEN task.hits
               ELSE IF task.outcome = "returned"
               THEN FallbackHits(task.site, run.q, run.engine, "", "No scraper results - open site.", <<>>)
               ELSE IF task.outcome = "timeout"
               THEN FallbackHits(task.site, run.q, run.engine, "timeout->",
                                 "Timed out after " \o IntStr(task.timeout) \o "s", << <<"timeout", B(TRUE)>> >>)
               ELSE FallbackHits(task.site, run.q, run.engine, "error->", "session error",
                                 << <<"error", S("session error")>> >>)
        via == IF task.outcome = "returned" /\ Len(task.hits) > 0 THEN "scraper"
               ELSE IF task.outcome = "returned" THEN "fallback"
               ELSE task.outcome
        hitEvents == [i \in 1..Len(new) |-> <<"hit", new[i]>>]
        events == IF via = "scraper" THEN <<Note("[+]")>> \o hitEvents
                  ELSE IF via = "fallback" THEN hitEvents \o <<Note("[~]")>>
                  ELSE IF via = "timeout" THEN hitEvents \o <<Note("[!] timeout")>>
                  ELSE hitEvents \o <<Note("[!] error")>>
    IN  /\ run.pc = "collect"
        /\ task.state = "finished"
        /\ runs' = [runs EXCEPT ![r] = [@ EXCEPT
                !.future_map[t].state = "collected",
                !.results = @ \o new,
                !.origin = @ \o [i \in 1..Len(new) |-> [src |-> task.site, via |-> via]],
                !.ui_queue = @ \o events \o (IF via \in {"scraper", "fallback"}
                                                 THEN << <<"inc_progress", 1>> >> ELSE <<>>)]]
        /\ UNCHANGED <<plan, files, faults>>

\* Collect adding the hits a scraper returned after the timeout to the
\* timeout links
Collect_KeepLate(r, t) ==
    LET run == runs[r]
        task == run.future_map[t]
        new == IF task.outcome = "returned" /\ Len(task.hits) > 0 THEN task.hits
               ELSE IF task.outcome = "returned"
               THEN FallbackHits(task.site, run.q, run.engine, "", "No scraper results - open site.", <<>>)
               ELSE IF task.outcome = "timeout"
               THEN task.hits \o FallbackHits(task.site, run.q, run.engine, "timeout->",
                                 "Timed out after " \o IntStr(task.timeout) \o "s", << <<"timeout", B(TRUE)>> >>)
               ELSE FallbackHits(task.site, run.q, run.engine, "error->", "session error",
                                 << <<"error", S("session error")>> >>)
        via == IF task.outcome = "returned" /\ Len(task.hits) > 0 THEN "scraper"
               ELSE IF task.outcome = "returned" THEN "fallback"
               ELSE task.outcome
        hitEvents == [i \in 1..Len(new) |-> <<"hit", new[i]>>]
        events == IF via = "scraper" THEN <<Note("[+]")>> \o hitEvents
                  ELSE IF via = "fallback" THEN hitEvents \o <<Note("[~]")>>
                  ELSE IF via = "timeout" THEN hitEvents \o <<Note("[!] timeout")>>
                  ELSE hitEvents \o <<Note("[!] error")>>
    IN  /\ run.pc = "collect"
        /\ task.state = "finished"
        /\ runs' = [runs EXCEPT ![r] = [@ EXCEPT
                !.future_map[t].state = "collected",
                !.results = @ \o new,
                !.origin = @ \o [i \in 1..Len(new) |-> [src |-> task.site, via |-> via]],
                !.ui_queue = @ \o events \o << <<"inc_progress", 1>> >>]]
        /\ UNCHANGED <<plan, files, faults>>

\* lines 757-792, one iteration of the as_completed loop
Collect(r, t) ==
    LET run == runs[r]
        task == run.future_map[t]
        new == IF task.outcome = "returned" /\ Len(task.hits) > 0 THEN task.hits
               ELSE IF task.outcome = "returned"
               THEN FallbackHits(task.site, run.q, run.engine, "", "No scraper results - open site.", <<>>)
               ELSE IF task.outcome = "timeout"
               THEN FallbackHits(task.site, run.q, run.engine, "timeout->",
                                 "Timed out after " \o IntStr(task.timeout) \o "s", << <<"timeout", B(TRUE)>> >>)
               ELSE FallbackHits(task.site, run.q, run.engine, "error->", "session error",
                                 << <<"error", S("session error")>> >>)
        via == IF task.outcome = "returned" /\ Len(task.hits) > 0 THEN "scraper"
               ELSE IF task.outcome = "returned" THEN "fallback"
               ELSE task.outcome
        hitEvents == [i \in 1..Len(new) |-> <<"hit", new[i]>>]
        events == IF via = "scraper" THEN <<Note("[+]")>> \o hitEvents
                  ELSE IF via = "fallback" THEN hitEvents \o <<Note("[~]")>>
                  ELSE IF via = "timeout" THEN hitEvents \o <<Note("[!] timeout")>>
                  ELSE hitEvents \o <<Note("[!] error")>>
    IN  /\ run.pc = "collect"
        /\ task.state = "finished"
        /\ runs' = [runs EXCEPT ![r] = [@ EXCEPT
                !.future_map[t].state = "collected",
                !.results = @ \o new,
                !.origin = @ \o [i \in 1..Len(new) |-> [src |-> task.site, via |-> via]],
                !.ui_queue = @ \o events \o << <<"inc_progress", 1>> >>]]
        /\ UNCHANGED <<plan, files, faults>>

\* Finish as soon as a task that failed or timed out was collected
Finish_OnFailure(r) ==
    /\ runs[r].pc = "collect"
    /\ \E t \in Tasks(r) :
            /\ runs[r].future_map[t].state = "collected"
            /\ runs[r].future_map[t].outcome \in {"timeout", "error"}
    /\ EndOfRun(r, <<>>)

\* lines 794-806: every future was collected
Finish(r) ==
    /\ runs[r].pc = "collect"
    /\ \A t \in Tasks(r) : runs[r].future_map[t].state = "collected"
    /\ EndOfRun(r, <<>>)

\* the steps of the background threads; the interactive thread is idle and
\* the events put are kept with the run that put them
Next ==
    \/ RunSites /\ UNCHANGED app
    \/ \E r \in Runs : CacheLookup(r) /\ UNCHANGED app
    \/ \E r \in Runs : CacheBypass(r) /\ UNCHANGED app
    \/ \E r \in Runs : Prefilter(r) /\ UNCHANGED app
    \/ \E r \in Runs : AfterPrefilter(r) /\ UNCHANGED app
    \/ \E r \in Runs : FinishDatasetsOnly(r) /\ UNCHANGED app
    \/ \E r \in Runs : Submit(r) /\ UNCHANGED app
    \/ \E r \in Runs : \E t \in Tasks(r) : TaskStart(r, t) /\ UNCHANGED app
    \/ \E r \in Runs : \E t \in Tasks(r) : SessionFault(r, t) /\ UNCHANGED app
    \/ \E r \in Runs : \E t \in Tasks(r) : ScraperReturn(r, t) /\ UNCHANGED app
    \/ \E r \in Runs : \E t \in Tasks(r) : DeadlinePass(r, t) /\ UNCHANGED app
    \/ \E r \in Runs : \E t \in Tasks(r) : AbandonedReturn(r, t) /\ UNCHANGED app
    \/ \E r \in Runs : \E t \in Tasks(r) : Collect(r, t) /\ UNCHANGED app
    \/ \E r \in Runs : Finish(r) /\ UNCHANGED app

Spec == Init /\ [][Next]_vars

\* ------------------------------------------------------------------------
\* Queries built field by field, and their cache keys
\* ------------------------------------------------------------------------
\* most assignments made to one query object
MaxAssign == 2

FIELDS == {"first", "last", "username", "email", "phone", "address1", "city", "state", "zip"}

\* the fields assigned and the values given to them; None is a field unset
KeyFields == {"username", "phone", "zip"}
KeyValues == {None, "", "Al"}

\* the ways to assign up to MaxAssign distinct fields, one after the other
Scripts ==
    UNION {{s \in [1..k -> KeyFields \X KeyValues] : \A i, j \in 1..k : i # j => s[i][1] # s[j][1]} :
            k \in 0..MaxAssign}

\* what a script leaves in the object, unset and empty fields apart
Effect(s) == {s[i] : i \in {k \in 1..Len(s) : s[k][2] \notin {None, ""}}}

\* two objects to build, with the same field values in the end
KeyPlans == {<<a, b>> \in Scripts \X Scripts : Effect(a) = Effect(b)}

KeyInit ==
    /\ app = AppInit
    /\ plan \in KeyPlans
    /\ files = [p \in {} |-> CorruptFile]
    /\ runs = <<>>
    /\ faults = 0

\* OSINTQuery(): the dataclass defaults
Construct ==
    /\ Len(runs) < Len(plan)
    /\ IF runs = <<>> THEN TRUE ELSE runs[Len(runs)].key # ""
    /\ runs' = Append(runs, [q |-> EmptyQuery, key |-> ""])
    /\ UNCHANGED <<plan, files, faults, app>>

\* q.<field> = value, the next assignment of the script
SetAttr ==
    /\ runs # <<>>
    /\ runs[Len(runs)].key = ""
    /\ plan[Len(runs)] # <<>>
    /\ LET a == Head(plan[Len(runs)])
       IN  runs' = [runs EXCEPT ![Len(runs)].q = [@ EXCEPT ![a[1]] = a[2]]]
    /\ plan' = [plan EXCEPT ![Len(runs)] = Tail(@)]
    /\ UNCHANGED <<files, faults, app>>

\* cache_key_for_query(q) of the finished object
KeyOf ==
    /\ runs # <<>>
    /\ runs[Len(runs)].key = ""
    /\ plan[Len(runs)] = <<>>
    /\ runs' = [runs EXCEPT ![Len(runs)].key = cache_key_for_query(runs[Len(runs)].q)]
    /\ UNCHANGED <<plan, files, faults, app>>

KeyNext == Construct \/ SetAttr \/ KeyOf

KeySpec == KeyInit /\ [][KeyNext]_vars

\* ------------------------------------------------------------------------
\* save_cache and load_cache of one query in two threads
\* ------------------------------------------------------------------------
\* the hit lists stored
HitLists == {ScraperHits(s, n) : s \in {"FamilyTreeNow", "WhoCallsMe"}, n \in 1..MaxHits}

\* runs[1] is the thread in save_cache(q, hits) over the entry that holds
\* `old`; runs[2] is the thread in load_cache(q)
StoreInit ==
    /\ app = AppInit
    /\ plan = <<>>
    /\ faults = 0
    /\ \E q \in Queries, old \in HitLists, new \in HitLists :
        /\ files = (cache_path_for_query(q) :> JsonFile([i \in 1..Len(old) |-> asdict(old[i])]))
        /\ runs = << [pc |-> "open", q |-> q, hits |-> new, old |-> old, written |-> 0],
                     [pc |-> "exists", q |-> q, cache_hits |-> <<>>] >>

\* line 237: open(path, "w") truncates the file
OpenForWrite ==
    /\ runs[1].pc = "open"
    /\ files' = [files EXCEPT ![cache_path_for_query(runs[1].q)] = CorruptFile]
    /\ runs' = [runs EXCEPT ![1].pc = "dump"]
    /\ UNCHANGED <<plan, faults, app>>

\* line 238: json.dump writes the list piece by piece
DumpChunk ==
    /\ runs[1].pc = "dump"
    /\ runs[1].written < Len(runs[1].hits)
    /\ files' = [files EXCEPT ![cache_path_for_query(runs[1].q)] =
                    [ok |-> FALSE, data |-> Append(@.data, asdict(runs[1].hits[runs[1].written + 1]))]]
    /\ runs' = [runs EXCEPT ![1].written = @ + 1]
    /\ UNCHANGED <<plan, faults, app>>

\* lines 238-239: the closing bracket is written and the file is closed
CloseWrite ==
    /\ runs[1].pc = "dump"
    /\ runs[1].written = Len(runs[1].hits)
    /\ files' = [files EXCEPT ![cache_path_for_query(runs[1].q)] = JsonFile(@.data)]
    /\ runs' = [runs EXCEPT ![1].pc = "done"]
    /\ UNCHANGED <<plan, faults, app>>

\* line 228: os.path.exists(path)
ExistsCheck ==
    /\ runs[2].pc = "exists"
    /\ runs' = [runs EXCEPT ![2].pc = IF HasEntry(files, runs[2].q) THEN "read" ELSE "done"]
    /\ UNCHANGED <<plan, files, faults, app>>

\* lines 229-232: the file is read and parsed
ReadEntry ==
    /\ runs[2].pc = "read"
    /\ runs' = [runs EXCEPT ![2].pc = "done",
                            ![2].cache_hits = load_cache(files, runs[2].q, "ok")]
    /\ UNCHANGED <<plan, files, faults, app>>

StoreNext == OpenForWrite \/ DumpChunk \/ CloseWrite \/ ExistsCheck \/ ReadEntry

StoreSpec == StoreInit /\ [][StoreNext]_vars

\* ------------------------------------------------------------------------
\* The cache helpers called one after the other, on several queries
\* ------------------------------------------------------------------------
\* the queries whose entries share the cache directory
CacheQueries == RerunQueries \cup {[EmptyQuery EXCEPT !.phone = "(-)"]}

\* the hit lists stored
CacheLists == {ScraperHits("FamilyTreeNow", n) : n \in 1..MaxHits}

\* runs holds the last call made: the helper, its argument, how the file
\* operation went, what it returned and the files it found
CacheInit ==
    /\ app = AppInit
    /\ plan = <<>>
    /\ files = [p \in {} |-> CorruptFile]
    /\ runs = <<>>
    /\ faults = 0

\* save_cache(q, hits)
CallSaveCache ==
    \E q \in CacheQueries, hits \in CacheLists, o \in WriteOutcomes :
        /\ files' = SaveCacheFiles(files, cache_path_for_query(q), hits, o)
        /\ runs' = <<[op |-> "save_cache", q |-> q, hits |-> hits, outcome |-> o, before |-> files,
                      returned |-> save_cache(cache_path_for_query(q), o)]>>
        /\ UNCHANGED <<plan, faults, app>>

\* load_cache(q)
CallLoadCache ==
    \E q \in CacheQueries, o \in ReadOutcomes :
        /\ HasEntry(files, q) \/ o = "ok"
        /\ runs' = <<[op |-> "load_cache", q |-> q, hits |-> <<>>, outcome |-> o, before |-> files,
                      returned |-> load_cache(files, q, o)]>>
        /\ UNCHANGED <<plan, files, faults, app>>

\* clear_cache_for_query(q)
CallClearCache ==
    \E q \in CacheQueries, o \in RemoveOutcomes :
        /\ HasEntry(files, q) \/ o = "ok"
        /\ files' = ClearCacheFiles(files, q, o)
        /\ runs' = <<[op |-> "clear_cache_for_query", q |-> q, hits |-> <<>>, outcome |-> o, before |-> files,
                      returned |-> clear_cache_for_query(files, q, o)]>>
        /\ UNCHANGED <<plan, faults, app>>

CacheNext == CallSaveCache \/ CallLoadCache \/ CallClearCache

CacheSpec == CacheInit /\ [][CacheNext]_vars

\* ------------------------------------------------------------------------
\* save_cache of one query at the end of two runs at the same time
\* ------------------------------------------------------------------------
\* what a file holds at one place: the JSON object of a hit, the bracket
\* that closes the list, or the gap left by a write beyond the end
Piece(kind, item) == [kind |-> kind, item |-> item]
CLOSING == Piece("]", <<>>)
GAP == Piece("gap", <<>>)

\* json.load accepts the pieces: objects, then the closing bracket
Parses(cells) ==
    /\ Len(cells) > 0
    /\ cells[Len(cells)] = CLOSING
    /\ \A i \in 1..(Len(cells) - 1) : cells[i].kind = "object"

\* the file made of the pieces, as load_cache meets it
FileOf(cells) ==
    [ok |-> Parses(cells),
     data |-> IF Parses(cells) THEN [i \in 1..(Len(cells) - 1) |-> cells[i].item] ELSE <<>>,
     cells |-> cells]

\* f.write at position pos of a file opened with "w": it overwrites what
\* is there and extends the file, with a gap if the file ends before pos
WriteAt(cells, pos, piece) ==
    IF pos <= Len(cells) THEN [cells EXCEPT ![pos] = piece]
    ELSE cells \o [i \in 1..(pos - Len(cells) - 1) |-> GAP] \o <<piece>>

\* the threads of two runs of query q, each about to call
\* save_cache(q, results); `pos` is the position of the thread's file
\* object, `turn` tells in which order the calls returned
WriteInit ==
    /\ app = AppInit
    /\ plan = <<>>
    /\ faults = 0
    /\ files = [p \in {} |-> CorruptFile]
    /\ \E q \in RerunQueries, a \in HitLists, b \in HitLists :
        runs = << [pc |-> "open", q |-> q, results |-> a, pos |-> 1, turn |-> 0],
                  [pc |-> "open", q |-> q, results |-> b, pos |-> 1, turn |-> 0] >>

\* line 237: open(path, "w") creates or truncates the file
SaveOpen(w) ==
    /\ runs[w].pc = "open"
    /\ files' = (cache_path_for_query(runs[w].q) :> FileOf(<<>>))
    /\ runs' = [runs EXCEPT ![w].pc = "dump"]
    /\ UNCHANGED <<plan, faults, app>>

\* line 238: json.dump writes the next object where this thread's file
\* object stands
SaveDump(w) ==
    /\ runs[w].pc = "dump"
    /\ runs[w].pos <= Len(runs[w].results)
    /\ files' = [files EXCEPT ![cache_path_for_query(runs[w].q)] =
                    FileOf(WriteAt(@.cells, runs[w].pos, Piece("object", asdict(runs[w].results[runs[w].pos]))))]
    /\ runs' = [runs EXCEPT ![w].pos = @ + 1]
    /\ UNCHANGED <<plan, faults, app>>

\* lines 238-239: the closing bracket is written, the file is closed and
\* save_cache returns
SaveClose(w) ==
    /\ runs[w].pc = "dump"
    /\ runs[w].pos = Len(runs[w].results) + 1
    /\ files' = [files EXCEPT ![cache_path_for_query(runs[w].q)] = FileOf(WriteAt(@.cells, runs[w].pos, CLOSING))]
    /\ runs' = [runs EXCEPT ![w].pc = "done",
                            ![w].turn = 1 + Cardinality({v \in DOMAIN runs : runs[v].pc = "done"})]
    /\ UNCHANGED <<plan, faults, app>>

WriteNext ==
    \/ \E w \in DOMAIN runs : SaveOpen(w)
    \/ \E w \in DOMAIN runs : SaveDump(w)
    \/ \E w \in DOMAIN runs : SaveClose(w)

WriteSpec == WriteInit /\ [][WriteNext]_vars

\* ------------------------------------------------------------------------
\* Runs started while others are active, and the interactive thread
\* ------------------------------------------------------------------------
\* two clicks: a run that the datasets satisfy and a run with bypass that
\* scrapes, started while the first is active
ConcPlans ==
    { <<Request([EmptyQuery EXCEPT !.username = "Al"], <<"FamilyTreeNow">>, FALSE),
        Request(EmptyQuery, <<"Zillow">>, TRUE)>> }

\* a session with one fault of the environment at most
ConcInit ==
    /\ app = AppInit
    /\ plan \in ConcPlans
    /\ files = [p \in {} |-> CorruptFile]
    /\ runs = <<>>
    /\ faults = MaxFaults - 1

\* _run_sites: the thread is started, whatever the other threads do
RunSitesAnytime ==
    /\ plan # <<>>
    /\ runs' = Append(runs, NewRun(Head(plan)))
    /\ plan' = Tail(plan)
    /\ UNCHANGED <<files, faults, app>>

\* self.ui_queue.put of the events run r puts in this step, in order
Put(r) ==
    LET before == Len(runs[r].ui_queue)
        count == Len(app.processed) + Len(app.ui_queue)
    IN  app' = [app EXCEPT !.ui_queue = @ \o
                    [i \in 1..(Len(runs'[r].ui_queue) - before) |->
                        [run |-> r, put |-> count + i, event |-> runs'[r].ui_queue[before + i]]]]

\* lines 817-831, one iteration of the loop of _process_ui_queue: the
\* event of one queue entry is handled
HandleEvent(a, e) ==
    LET t == e.event[1]
        payload == e.event[2]
    IN  [a EXCEPT
            !.processed = Append(@, e),
            !.results = IF t = "hit" THEN Append(@, payload) ELSE @,
            !.status = IF t = "note" THEN payload
                       ELSE IF t = "done" THEN "done. " \o IntStr(payload) \o " result rows ready."
                       ELSE @,
            !.maximum = IF t = "setup_progress" THEN payload ELSE @,
            !.value = IF t = "setup_progress" THEN 0
                      ELSE IF t = "inc_progress" THEN Min(a.maximum, @ + payload)
                      ELSE IF t = "done" THEN a.maximum
                      ELSE @]

\* line 816, the loop: the entries are handled one after the other
RECURSIVE Drain(_, _)
Drain(a, entries) ==
    IF entries = <<>> THEN a ELSE Drain(HandleEvent(a, Head(entries)), Tail(entries))

\* _process_ui_queue taking the newest event of the queue first
ProcessUiQueue_Newest ==
    /\ app.ui_queue # <<>>
    /\ app' = [Drain(app, [i \in 1..Len(app.ui_queue) |-> app.ui_queue[Len(app.ui_queue) + 1 - i]])
                EXCEPT !.ui_queue = <<>>]
    /\ UNCHANGED <<plan, files, runs, faults>>

\* lines 815-832, one poll of the interactive thread: the queue is emptied
\* from its oldest event on, and the next poll is armed
ProcessUiQueue ==
    /\ app.ui_queue # <<>>
    /\ app' = [Drain(app, app.ui_queue) EXCEPT !.ui_queue = <<>>]
    /\ UNCHANGED <<plan, files, runs, faults>>

ConcNext ==
    \/ RunSitesAnytime
    \/ \E r \in Runs : CacheLookup(r) /\ Put(r)
    \/ \E r \in Runs : CacheBypass(r) /\ Put(r)
    \/ \E r \in Runs : Prefilter(r) /\ Put(r)
    \/ \E r \in Runs : AfterPrefilter(r) /\ Put(r)
    \/ \E r \in Runs : FinishDatasetsOnly(r) /\ Put(r)
    \/ \E r \in Runs : Submit(r) /\ Put(r)
    \/ \E r \in Runs : \E t \in Tasks(r) : TaskStart(r, t) /\ Put(r)
    \/ \E r \in Runs : \E t \in Tasks(r) : SessionFault(r, t) /\ Put(r)
    \/ \E r \in Runs : \E t \in Tasks(r) : ScraperReturn(r, t) /\ Put(r)
    \/ \E r \in Runs : \E t \in Tasks(r) : DeadlinePass(r, t) /\ Put(r)
    \/ \E r \in Runs : \E t \in Tasks(r) : AbandonedReturn(r, t) /\ Put(r)
    \/ \E r \in Runs : \E t \in Tasks(r) : Collect(r, t) /\ Put(r)
    \/ \E r \in Runs : Finish(r) /\ Put(r)
    \/ ProcessUiQueue

ConcSpec == ConcInit /\ [][ConcNext]_vars

TypeOK ==
    /\ \A r \in Runs : runs[r].pc \in {"cache", "prefilter", "datasets_only", "submit", "collect", "done", "crashed"}
    /\ \A r \in Runs : runs[r].pc # "prefilter" => Len(runs[r].origin) = Len(runs[r].results)
    /\ faults \in 0..MaxFaults

\* ------------------------------------------------------------------------
\* Properties
\* ------------------------------------------------------------------------
\* the run did not end on the cache
LiveRun(r) == runs[r].pc # "cache" /\ runs[r].cache_hits = <<>>

Done(r) == runs[r].pc = "done"

\* the hits of the results that name source s
HitsOf(r, s) == SelectSeq(runs[r].results, LAMBDA h : h.site = s)

\* the sources handed to the scheduler so far
Dispatched(r) == {runs[r].future_map[t].site : t \in Tasks(r)}

\* the sources whose scraper was called
Invoked(r) == RangeOf(runs[r].scraper_calls)

\* the progress increments and the hits put on the queue
Completed(r) == Len(SelectSeq(runs[r].ui_queue, LAMBDA e : e[1] = "inc_progress"))
HitEvents(r) ==
    LET ev == SelectSeq(runs[r].ui_queue, LAMBDA e : e[1] = "hit")
    IN  [i \in 1..Len(ev) |-> ev[i][2]]

IsPriority(s) == \E i \in 1..Len(PRIORITY_SITES) : PRIORITY_SITES[i] = s

\* a home page is known for source s
HomeResolvable(s) ==
    \/ \E i \in 1..Len(SITE_URL) : SITE_URL[i][1] = s
    \/ \E i \in 1..Len(SITE_DOMAIN) : SITE_DOMAIN[i][1] = s /\ SITE_DOMAIN[i][2] \notin {None, ""}

\* the value of key k in the raw of hit h, S("") when there is none
RawOf(h, k) == DictGet(h.raw, k, S(""))

\* ---- C1 ----
\* run r repeats the query of the completed run before it, without bypass
SameQueryAgain(r) ==
    /\ r > 1
    /\ runs[r - 1].pc = "done"
    /\ runs[r].q = runs[r - 1].q
    /\ ~runs[r].skip_cache
    /\ runs[r].pc # "cache"

\* run r ended on the cache: no provider call, no task, no scraper call, and
\* the queue holds the note, the cached hits and the done event
ShortCircuit(r) ==
    /\ runs[r].pc = "done"
    /\ runs[r].ds_calls = <<>>
    /\ runs[r].scraper_calls = <<>>
    /\ runs[r].future_map = <<>>
    /\ Len(runs[r].cache_hits) > 0
    /\ HitEvents(r) = runs[r].cache_hits
    /\ runs[r].ui_queue[Len(runs[r].ui_queue)] = <<"done", Len(runs[r].cache_hits)>>

\* C1 as stated: a query run again after a completed run, without bypass,
\* always ends on the cache with no dataset call and no scraper call.
C1_AsStated == \A r \in Runs : SameQueryAgain(r) => ShortCircuit(r)

\* C1: a query run again after a completed run, without bypass, ends on the
\* cache with no dataset call and no scraper call, emitting the cached hits,
\* provided the first run's save_cache wrote the entry and the second run's
\* read of it did not fail.
C1_CacheShortCircuit ==
    \A r \in Runs :
        (/\ SameQueryAgain(r)
         /\ Len(runs[r - 1].saved) > 0 /\ runs[r - 1].saved[1] # ""
         /\ runs[r].cache_read = "ok")
        => (ShortCircuit(r) /\ Len(runs[r].cache_hits) = Len(runs[r - 1].results))

C1_Witness ==
    \E r \in Runs :
        /\ SameQueryAgain(r)
        /\ Len(runs[r - 1].saved) > 0 /\ runs[r - 1].saved[1] # ""
        /\ runs[r].cache_read = "ok"
        /\ Done(r)
        /\ Len(runs[r].cache_hits) > 1

\* ---- C2 ----
\* C2: when a live run ends, the results hold at least one hit naming each
\* selected source, whatever faults occurred.
C2_NoRowLost ==
    \A r \in Runs :
        (Finished(r) /\ LiveRun(r)) => \A s \in runs[r].selected : Len(HitsOf(r, s)) > 0

C2_Witness ==
    \E r \in Runs :
        /\ Done(r) /\ LiveRun(r)
        /\ Cardinality(runs[r].selected) > 1
        /\ \E t \in Tasks(r) : runs[r].future_map[t].outcome = "timeout"
        /\ \E t \in Tasks(r) : runs[r].future_map[t].how = "raise"

\* ---- C3 ----
\* the timeout of task t has passed and its scraper call has not returned
DeadlinePassed(r, t) == runs[r].future_map[t].state = "abandoned"

\* run r has every task submitted and nothing left to do but wait for
\* scraper calls that are past their timeout
WaitsForLateCall(r) ==
    /\ runs[r].pc = "collect"
    /\ \E t \in Tasks(r) : DeadlinePassed(r, t)
    /\ \A t \in Tasks(r) : DeadlinePassed(r, t) \/ runs[r].future_map[t].state = "collected"

\* C3 as stated: the timeout outcome of a task is produced once its timeout
\* has passed, without waiting for the scraper call, so a run is never left
\* with nothing to do but wait for a call that is past its timeout.
C3_NeverWaitsForLateCall == \A r \in Runs : ~WaitsForLateCall(r)

\* ---- C4 ----
\* C4: a collected task that timed out has put into the results exactly the
\* home link and the dork link of its source, or the dork link alone when no
\* home page is known; each carries timeout = true, and none of them is a hit
\* the scraper call returned after the timeout.
C4_TimeoutHits ==
    \A r \in Runs : \A t \in Tasks(r) :
        LET task == runs[r].future_map[t]
            H == HitsOf(r, task.site)
        IN  (task.state = "collected" /\ task.outcome = "timeout") =>
                /\ Len(H) = (IF HomeResolvable(task.site) THEN 2 ELSE 1)
                /\ \A i \in 1..Len(H) : RawOf(H[i], "timeout") = B(TRUE)
                /\ RawOf(H[Len(H)], "fallback") = S("dork")
                /\ HomeResolvable(task.site) => RawOf(H[1], "fallback") = S("home")
                /\ \A i \in 1..Len(H) : \A j \in 1..Len(task.hits) : H[i].url # task.hits[j].url

C4_Witness ==
    \E r \in Runs : \E t, u \in Tasks(r) :
        /\ runs[r].future_map[t].state = "collected" /\ runs[r].future_map[t].outcome = "timeout"
        /\ HomeResolvable(runs[r].future_map[t].site)
        /\ Len(runs[r].future_map[t].hits) > 0
        /\ runs[r].future_map[u].state = "collected" /\ runs[r].future_map[u].outcome = "timeout"
        /\ ~HomeResolvable(runs[r].future_map[u].site)

\* ---- C5 ----
\* task t of run r is collected, its scraper raised, its source has a home
RaisedAndCollected(r, t) ==
    /\ runs[r].future_map[t].how = "raise"
    /\ runs[r].future_map[t].state = "collected"
    /\ HomeResolvable(runs[r].future_map[t].site)

C6_PriorityFirst ==
    \A r \in Runs : \A i, j \in Tasks(r) :
        (i < j /\ IsPriority(runs[r].future_map[j].site)) => IsPriority(runs[r].future_map[i].site)

\* the input had the non-priority source first
C6_Witness ==
    \E r \in Runs :
        /\ runs[r].reordered
        /\ Cardinality(runs[r].selected) = 2
        /\ Len(runs[r].future_map) = 2
        /\ IsPriority(runs[r].future_map[1].site)
        /\ ~IsPriority(runs[r].future_map[2].site)

\* ---- C7 ----
\* position of x in seq
Pos(seq, x) == CHOOSE k \in 1..Len(seq) : seq[k] = x

\* out holds the elements of input, priority sources first
Partitioned(input, out) ==
    /\ Len(out) = Len(input)
    /\ RangeOf(out) = RangeOf(input)
    /\ \A i, j \in 1..Len(out) : (i < j /\ IsPriority(out[j])) => IsPriority(out[i])

\* the sources of out that satisfy P are in the order they have in ref
SameOrder(out, ref, P(_)) ==
    \A i, j \in 1..Len(out) : (i < j /\ P(out[i]) /\ P(out[j])) => Pos(ref, out[i]) < Pos(ref, out[j])

NotPriority(s) == ~IsPriority(s)

\* the step of run r that fixes ordered_sites
SetupStep(r) == runs[r].pc = "cache" /\ runs'[r].pc = "prefilter"

\* C7 as stated: the dispatch order is the priority sources in their input
\* order, then the other sources in their input order.
C7_AsStated ==
    [][\A r \in Runs : SetupStep(r) =>
            /\ Partitioned(runs[r].sites, runs'[r].ordered_sites)
            /\ SameOrder(runs'[r].ordered_sites, runs[r].sites, IsPriority)
            /\ SameOrder(runs'[r].ordered_sites, runs[r].sites, NotPriority)]_vars

\* C7: the dispatch order is the priority sources in the order of
\* PRIORITY_SITES, then the other sources in their input order.
C7_DispatchOrder ==
    [][\A r \in Runs : SetupStep(r) =>
            /\ Partitioned(runs[r].sites, runs'[r].ordered_sites)
            /\ SameOrder(runs'[r].ordered_sites, PRIORITY_SITES, IsPriority)
            /\ SameOrder(runs'[r].ordered_sites, runs[r].sites, NotPriority)]_vars

\* two priority sources were given against the order of PRIORITY_SITES
C7_Witness ==
    \E r \in Runs :
        /\ runs[r].reordered
        /\ Len(runs[r].ordered_sites) = 2
        /\ IsPriority(runs[r].ordered_sites[1]) /\ IsPriority(runs[r].ordered_sites[2])

\* ---- C8 ----
\* q gives no token: every field but the phone is empty and the phone has no
\* digit
NoToken(q) ==
    /\ \A f \in {"first", "last", "username", "email", "address1", "city", "state", "zip"} : q[f] = ""
    /\ \A k \in 1..Len(q.phone) : SubSeq(q.phone, k, k) \notin {"0", "1", "2", "3", "4", "5", "6", "7", "8", "9"}

\* C8 as stated: a query without token makes no dataset call, and every
\* selected source is dispatched and its scraper is called.
C8_AsStated ==
    \A r \in Runs :
        (Finished(r) /\ LiveRun(r) /\ NoToken(runs[r].q)) =>
            /\ runs[r].ds_calls = <<>>
            /\ \A s \in runs[r].selected : s \in Dispatched(r) /\ s \in Invoked(r)

\* C8: a query without token makes no dataset call and every selected source
\* is dispatched; its scraper is called unless get_session failed in its
\* task, which then ends in the error links.
C8_NoTokenNoDatasets ==
    \A r \in Runs :
        (Finished(r) /\ LiveRun(r) /\ NoToken(runs[r].q)) =>
            /\ runs[r].ds_calls = <<>>
            /\ Dispatched(r) = runs[r].selected
            /\ \A t \in Tasks(r) :
                IF runs[r].future_map[t].how = "session"
                THEN /\ runs[r].future_map[t].site \notin Invoked(r)
                     /\ \A i \in 1..Len(HitsOf(r, runs[r].future_map[t].site)) :
                            DictHas(HitsOf(r, runs[r].future_map[t].site)[i].raw, "error")
                ELSE runs[r].future_map[t].site \in Invoked(r)

C8_Witness ==
    \E r \in Runs :
        /\ Done(r) /\ LiveRun(r) /\ NoToken(runs[r].q)
        /\ runs[r].q.phone # ""
        /\ Cardinality(runs[r].selected) > 1
        /\ Invoked(r) = runs[r].selected

\* ---- C9 ----
\* c.lower() == d.lower() for characters c, d
SameLetter(c, d) ==
    \/ c = d
    \/ \E k \in 1..Len(UPPERCASE) :
        {c, d} = {SubSeq(UPPERCASE, k, k), SubSeq(LOWERCASE, k, k)}

\* p occurs in t from offset i on, letter case apart
OccursAt(t, p, i) == \A k \in 1..Len(p) : SameLetter(SubSeq(t, i + k, i + k), SubSeq(p, k, k))

\* p is a case-insensitive substring of t
OccursIn(t, p) == \E i \in 0..(Len(t) - Len(p)) : OccursAt(t, p, i)

\* title, snippet, url and serialized raw of hit h, joined by blanks
TextOf(h) == h.title \o " " \o h.snippet \o " " \o h.url \o " " \o JsonDumps(h.raw)

\* hit h shares a token with the query of run r
SharesToken(r, h) == \E i \in 1..Len(runs[r].tokens) : OccursIn(TextOf(h), runs[r].tokens[i])

\* the hits of the results that came from the dataset provider
DatasetResults(r) ==
    IF runs[r].pc = "prefilter" THEN runs[r].results_from_datasets
    ELSE SelectSeq([i \in 1..Len(runs[r].results) |-> [hit |-> runs[r].results[i], via |-> runs[r].origin[i].via]],
                   LAMBDA x : x.via = "dataset")

\* the hit events of the prefilter: those before its closing note
PrefilterHitEvents(r) ==
    LET ev == runs[r].ui_queue
        closed == {k \in 1..Len(ev) : ev[k][1] = "note" /\ ev[k][2] \in {"satisfied", "no dataset hits"}}
        last == IF closed = {} THEN Len(ev) ELSE CHOOSE k \in closed : TRUE
        hits == SelectSeq(SubSeq(ev, 1, last), LAMBDA e : e[1] = "hit")
    IN  [i \in 1..Len(hits) |-> hits[i][2]]

\* C9: while the prefilter runs, every dataset hit it has added to the
\* results or put on the queue as a hit event shares a token with the query;
\* afterwards the dataset hits of the results, of the hit events and of the
\* cache entry written are those hits and no others.
C9_DatasetHitsShareToken ==
    \A r \in Runs :
        /\ (runs[r].pc = "prefilter") =>
                /\ \A i \in 1..Len(runs[r].results_from_datasets) :
                        SharesToken(r, runs[r].results_from_datasets[i])
                /\ PrefilterHitEvents(r) = runs[r].results_from_datasets
        /\ (LiveRun(r) /\ runs[r].pc # "prefilter") =>
                /\ [i \in 1..Len(DatasetResults(r)) |-> DatasetResults(r)[i].hit] = runs[r].results_from_datasets
                /\ PrefilterHitEvents(r) = runs[r].results_from_datasets
                /\ HitEvents(r) = runs[r].results
        /\ (LiveRun(r) /\ r = Len(runs) /\ Len(runs[r].saved) > 0 /\ runs[r].saved[1] # "") =>
                files[runs[r].saved[1]] = JsonFile([i \in 1..Len(runs[r].results) |-> asdict(runs[r].results[i])])

\* a run whose prefilter kept some hits of a source and dropped another
C9_Witness ==
    \E r \in Runs :
        /\ Done(r) /\ LiveRun(r)
        /\ Len(runs[r].results_from_datasets) > 0
        /\ \E k \in 1..Len(runs[r].ui_queue) : runs[r].ui_queue[k] = Note("datasets skip")
        /\ Len(runs[r].saved) > 0 /\ runs[r].saved[1] # ""

\* ---- C10 ----
\* C10 as stated: a source for which the prefilter accepted a dataset hit is
\* marked satisfied, is not dispatched and its scraper is not called; a
\* source without accepted dataset hit is dispatched.
C10_SatisfiedNotDispatched ==
    \A r \in Runs :
        (Finished(r) /\ LiveRun(r)) =>
            \A s \in runs[r].selected :
                IF s \in runs[r].ds_accepted
                THEN s \in runs[r].satisfied_sites /\ s \notin Dispatched(r) /\ s \notin Invoked(r)
                ELSE s \in Dispatched(r)

\* ---- C11 ----
\* the dataset hits accepted while source s was queried
DatasetHitsFor(r, s) == SelectSeq(runs[r].origin, LAMBDA o : o = [src |-> s, via |-> "dataset"])

\* C11: a source whose dataset lookup failed has no dataset hit; once the
\* prefilter is over every source of the ordered list was queried, in order,
\* and the failing source is in the live-scrape list; when the run ends it
\* was dispatched.
C11_ProviderFaultIsolated ==
    \A r \in Runs : \A s \in runs[r].ds_failed :
        /\ Len(DatasetHitsFor(r, s)) = 0
        /\ s \notin runs[r].ds_accepted
        /\ runs[r].pc # "prefilter" =>
                /\ runs[r].ds_calls = runs[r].ordered_sites
                /\ s \in RangeOf(runs[r].sites_to_scrape)
                /\ runs[r].pc # "datasets_only"
        /\ Finished(r) => s \in Dispatched(r)

\* the lookup of the first source failed, the second was queried and gave
\* accepted hits, and the run is done
C11_Witness ==
    \E r \in Runs :
        /\ Done(r)
        /\ Len(runs[r].ds_calls) = 2
        /\ runs[r].ds_calls[1] \in runs[r].ds_failed
        /\ runs[r].ds_calls[2] \in runs[r].ds_accepted
        /\ \E k \in 1..Len(runs[r].ui_queue) : runs[r].ui_queue[k] = Note("datasets failed")

\* ---- C12 ----
\* the effective default timeout of run r: the configured value, 3 at least
EffectiveTimeout(r) == IF runs[r].timeout_var >= 3 THEN runs[r].timeout_var ELSE 3

\* C12: the task of "Username Pack (direct)" has a timeout of at least 20
\* and at least the effective default timeout; the task of any other source
\* has exactly the effective default timeout.
C12_TimeoutFloor ==
    \A r \in Runs : \A t \in Tasks(r) :
        IF runs[r].future_map[t].site = "Username Pack (direct)"
        THEN /\ runs[r].future_map[t].timeout >= 20
             /\ runs[r].future_map[t].timeout >= EffectiveTimeout(r)
        ELSE runs[r].future_map[t].timeout = EffectiveTimeout(r)

\* a configured timeout below the floor: the username pack runs on 20, the
\* other source on 3
C12_Witness ==
    \E r \in Runs : \E t, u \in Tasks(r) :
        /\ runs[r].timeout_var < 3
        /\ runs[r].future_map[t].site = "Username Pack (direct)"
        /\ runs[r].future_map[t].timeout = 20
        /\ runs[r].future_map[u].site # "Username Pack (direct)"
        /\ runs[r].future_map[u].timeout = 3

\* ---- C13 ----
\* the field values of q, an unset field taken as empty
Canonical(q) == [f \in FIELDS |-> OrEmpty(q[f])]

\* object k has its key
Keyed(k) == k \in Runs /\ runs[k].key # ""

\* C13: two query objects with the same field values, an unset field taken
\* as empty, have the same cache key, whatever the order of the assignments
\* that built them; the canonical form of a query holds each of the nine
\* fields once with a str value and is the canonical form of its field
\* values.
C13_KeyOfValuesOnly ==
    /\ \A i, j \in Runs :
            (Keyed(i) /\ Keyed(j) /\ Canonical(runs[i].q) = Canonical(runs[j].q))
                => runs[i].key = runs[j].key
    /\ \A i \in Runs :
            LET d == to_ordered_dict(runs[i].q)
            IN  /\ {d[k][1] : k \in 1..Len(d)} = FIELDS
                /\ Len(d) = Cardinality(FIELDS)
                /\ \A k \in 1..Len(d) : d[k][2] # None /\ d[k][2] = Canonical(runs[i].q)[d[k][1]]
                /\ d = to_ordered_dict(Canonical(runs[i].q))

\* two objects built by different assignments, one with a field unset where
\* the other has it empty, both holding a value, both keys computed
C13_Witness ==
    /\ Keyed(1) /\ Keyed(2)
    /\ runs[1].q # runs[2].q
    /\ \E f \in FIELDS : runs[1].q[f] = None /\ runs[2].q[f] = ""
    /\ \E f \in FIELDS : runs[1].q[f] = "Al"
    /\ runs[1].key = runs[2].key

\* ---- C14 ----
\* run r stored its results: save_cache returned the path of the entry
Stored(r) == Len(runs[r].saved) > 0 /\ runs[r].saved[1] # ""

\* run r looked up the query of the run before it, which had stored its
\* results, and the read of the entry did not fail
LooksUpStored(r) ==
    /\ r > 1
    /\ Stored(r - 1)
    /\ runs[r].q = runs[r - 1].q
    /\ ~runs[r].skip_cache
    /\ runs[r].cache_read = "ok"

\* C14: once save_cache has stored a non-empty hit list H for a query, a
\* lookup of that query whose read does not fail, with no store or removal
\* in between, returns H, element for element and in the same order.
C14_RoundTrip ==
    /\ \A r \in Runs :
            (r = Len(runs) /\ Stored(r)) =>
                /\ Len(runs[r].results) > 0
                /\ load_cache(files, runs[r].q, "ok") = runs[r].results
    /\ \A r \in Runs : LooksUpStored(r) => runs[r].cache_hits = runs[r - 1].results

\* the list read back holds two scraper hits with their raw
C14_Witness ==
    \E r \in Runs :
        /\ LooksUpStored(r)
        /\ Len(runs[r].cache_hits) > 1
        /\ \A i \in 1..Len(runs[r].cache_hits) : runs[r].cache_hits[i].raw = << <<"probed", B(TRUE)>> >>
        /\ runs[r].cache_hits[1] # runs[r].cache_hits[2]

\* ---- C15 ----
\* the step of run r that looks the cache up
LookupStep(r) == runs[r].pc = "cache" /\ ~runs[r].skip_cache /\ runs'[r].pc # "cache"

\* the entry run r looks up is missing, does not parse, or cannot be read
NoUsableEntry(r) ==
    \/ ~HasEntry(files, runs[r].q)
    \/ ~files[cache_path_for_query(runs[r].q)].ok
    \/ runs'[r].cache_read = "fault"

\* the step of run r that calls save_cache, and save_cache fails
FailedWriteStep(r) ==
    /\ Len(runs'[r].saved) > Len(runs[r].saved)
    /\ runs'[r].saved[Len(runs'[r].saved)] = ""

C16_AtomicOverwrite ==
    (Len(runs) = 2 /\ runs[2].pc = "done") => runs[2].cache_hits \in {runs[1].old, runs[1].hits}

\* ---- C17 ----
\* run r has done no dataset or scraper work
NoWorkYet(r) == runs[r].ds_calls = <<>> /\ runs[r].future_map = <<>> /\ runs[r].scraper_calls = <<>>

\* run r is at work, between the cache step and the end of the run
AtWork(r) == runs[r].pc \in {"prefilter", "datasets_only", "submit", "collect"}

\* clear_cache_for_query returned True in run r
Cleared(r) == Len(runs[r].ui_queue) > 0 /\ runs[r].ui_queue[1] = Note("cache cleared")

\* the entry of run r's query holds exactly the results of run k, in order
EntryIsResults(r, k) ==
    /\ HasEntry(files, runs[r].q)
    /\ files[cache_path_for_query(runs[r].q)] =
            JsonFile([i \in 1..Len(runs[k].results) |-> asdict(runs[k].results[i])])

\* the runs of the query of run r, before run r, that stored their results
StoredBefore(r) == {k \in 1..(r - 1) : runs[k].q = runs[r].q /\ Stored(k)}

\* the last of them
Writer(r) == CHOOSE k \in StoredBefore(r) : \A j \in StoredBefore(r) : j <= k

\* every result of run r was collected by run r, and emitted in that order
OnlyFresh(r) ==
    /\ Len(runs[r].origin) = Len(runs[r].results)
    /\ \A i \in 1..Len(runs[r].origin) :
            runs[r].origin[i].via \in {"dataset", "scraper", "fallback", "timeout", "error"}
    /\ HitEvents(r) = runs[r].results

\* C17: a run with bypass never reads the cache and has done no dataset or
\* scraper work before it handles the bypass; while it works the entry of
\* its query is absent once clear_cache_for_query has removed it, and is
\* present only if os.remove failed, then as the run before left it; the
\* entry it writes at its end is exactly the hits it collected, in
\* collection order.
C17_BypassWritesFreshOnly ==
    \A r \in Runs :
        runs[r].skip_cache =>
            /\ runs[r].cache_read = "" /\ runs[r].cache_hits = <<>>
            /\ runs[r].pc = "cache" => NoWorkYet(r)
            /\ (AtWork(r) /\ r = Len(runs)) =>
                    IF Cleared(r) THEN ~HasEntry(files, runs[r].q)
                    ELSE HasEntry(files, runs[r].q) =>
                            /\ faults > 0
                            /\ r > 1
                            /\ \/ files[cache_path_for_query(runs[r].q)] = CorruptFile
                               \/ EntryIsResults(r, r - 1)
            /\ (r = Len(runs) /\ Stored(r)) => (EntryIsResults(r, r) /\ OnlyFresh(r))

\* a bypass run removed the entry stored by the run before it, collected
\* other hits and stored them
C17_Witness ==
    \E r \in Runs :
        /\ r > 1 /\ runs[r].skip_cache /\ runs[r].q = runs[r - 1].q
        /\ Stored(r - 1)
        /\ Cleared(r)
        /\ Done(r) /\ Stored(r)
        /\ EntryIsResults(r, r)
        /\ runs[r].results # runs[r - 1].results

\* ---- C18 ----
\* the tasks of run r whose outcome the as_completed loop has handled
Collected(r) == {t \in Tasks(r) : runs[r].future_map[t].state = "collected"}

\* C18: a run has emitted one progress increment for each task it has
\* collected, whatever the outcome of the task; when a live run ends that is
\* one for each task dispatched, and one for each source of the live-scrape
\* list.
C18_OneProgressPerTask ==
    \A r \in Runs :
        /\ Completed(r) = Cardinality(Collected(r))
        /\ (Finished(r) /\ LiveRun(r)) =>
                /\ Completed(r) = Len(runs[r].future_map)
                /\ Completed(r) = Len(runs[r].sites_to_scrape)

\* a run that is done after one task timed out and another ended in an error
C18_Witness ==
    \E r \in Runs : \E t, u \in Tasks(r) :
        /\ Done(r)
        /\ runs[r].future_map[t].outcome = "timeout"
        /\ runs[r].future_map[u].outcome = "error"
        /\ Completed(r) = Cardinality({t, u})

\* ---- C19 ----
\* the notes that report the outcome of a task
OutcomeNotes(r) ==
    SelectSeq(runs[r].ui_queue,
              LAMBDA e : e \in {Note("[+]"), Note("[~]"), Note("[!] timeout"), Note("[!] error")})

\* the positions of the done events in the queue of run r
DoneEvents(r) == {k \in 1..Len(runs[r].ui_queue) : runs[r].ui_queue[k][1] = "done"}

\* C19: a live run ends, and emits its done event, only when every source
\* of the live-scrape list has a task and every task has produced its
\* outcome; the done event is the last event of the queue and the outcomes
\* reported number the sources handed to the scheduler; a task that failed
\* or timed out leaves the run collecting the others.
C19_NoAbortOnTaskFailure ==
    \A r \in Runs :
        LiveRun(r) =>
            /\ Len(OutcomeNotes(r)) = Cardinality(Collected(r))
            /\ (Finished(r) \/ DoneEvents(r) # {}) =>
                    /\ Len(runs[r].future_map) = Len(runs[r].sites_to_scrape)
                    /\ Collected(r) = Tasks(r)
                    /\ Len(OutcomeNotes(r)) = Len(runs[r].sites_to_scrape)
            /\ DoneEvents(r) \subseteq {Len(runs[r].ui_queue)}
            /\ DoneEvents(r) # {} <=> Done(r)

\* the first task collected ended in an error, the second gave hits after
\* it, and the run is done
C19_Witness ==
    \E r \in Runs :
        /\ Done(r) /\ LiveRun(r)
        /\ Len(OutcomeNotes(r)) = 2
        /\ OutcomeNotes(r)[1] \in {Note("[!] timeout"), Note("[!] error")}
        /\ OutcomeNotes(r)[2] = Note("[+]")

\* ---- C20 ----
\* the hits of the results of run r that the scheduler added, with their task
SchedulerPart(r) ==
    SubSeq(runs[r].origin, Len(runs[r].results_from_datasets) + 1, Len(runs[r].origin))

\* the hits of one task lie together in the scheduler part
TaskBlocks(r) ==
    \A i, j, k \in 1..Len(SchedulerPart(r)) :
        (i < j /\ j < k /\ SchedulerPart(r)[i].src = SchedulerPart(r)[k].src)
            => SchedulerPart(r)[j].src = SchedulerPart(r)[i].src

\* C20: when a live run ends, save_cache was called if and only if the
\* results are not empty, once; the results are the accepted dataset hits
\* in acceptance order, then the hits of the tasks in the order the tasks
\* were collected, which is the order of the hit events; the entry stored
\* is that list; a run served from the cache calls save_cache never and
\* leaves the entry as the last run that stored it wrote it.
C20_CacheWrittenAtEnd ==
    \A r \in Runs :
        /\ (Finished(r) /\ LiveRun(r)) =>
                /\ Len(runs[r].saved) = (IF Len(runs[r].results) > 0 THEN 1 ELSE 0)
                /\ SubSeq(runs[r].results, 1, Len(runs[r].results_from_datasets)) = runs[r].results_from_datasets
                /\ \A i \in 1..Len(SchedulerPart(r)) : SchedulerPart(r)[i].via # "dataset"
                /\ TaskBlocks(r)
                /\ HitEvents(r) = runs[r].results
                /\ (r = Len(runs) /\ Stored(r)) => EntryIsResults(r, r)
        /\ ~Finished(r) => runs[r].saved = <<>>
        /\ Len(runs[r].cache_hits) > 0 =>
                /\ runs[r].saved = <<>>
                /\ StoredBefore(r) # {}
                /\ r = Len(runs) => EntryIsResults(r, Writer(r))

\* a run stored accepted dataset hits of one source followed by the hits of
\* the task of another
C20_Witness ==
    \E r \in Runs :
        /\ Done(r) /\ LiveRun(r) /\ Stored(r) /\ EntryIsResults(r, r)
        /\ Len(runs[r].results_from_datasets) > 0
        /\ Len(SchedulerPart(r)) > 1
        /\ \A i \in 1..Len(SchedulerPart(r)) : SchedulerPart(r)[i].src \notin runs[r].ds_accepted

\* ---- C21 ----
\* the scraper invocations of run r that have started and not yet returned
InFlight(r) == {t \in Tasks(r) : runs[r].future_map[t].state \in {"running", "abandoned"}}

\* the worker count a configured value gives: the value, 2 at least, 40 at
\* most
Clamped(n) == IF n < 2 THEN 2 ELSE IF n > 40 THEN 40 ELSE n

\* C21: a run past its cache step has a worker count within 2..40, the
\* configured value clamped to that range, and at no time more scraper
\* invocations in flight than workers, invocations whose task timed out
\* included.
C21_PoolBound ==
    \A r \in Runs :
        /\ (LiveRun(r) /\ runs[r].pc # "cache") =>
                /\ runs[r].threads \in 2..40
                /\ runs[r].threads = Clamped(runs[r].threads_var)
        /\ Tasks(r) # {} => Cardinality(InFlight(r)) <= runs[r].threads

\* a configured value below the range: two workers, both held by
\* invocations in flight, one of them past its timeout, and a third task
\* waiting
C21_Witness ==
    \E r \in Runs :
        /\ runs[r].threads_var < 2
        /\ Cardinality(InFlight(r)) = 2
        /\ \E t \in Tasks(r) : runs[r].future_map[t].state = "abandoned"
        /\ \E t \in Tasks(r) : runs[r].future_map[t].state = "pending"

\* ---- C23 ----
\* run r has set its default timeout
TimeoutSet(r) == LiveRun(r) /\ runs[r].pc # "cache"

\* C23 as stated: the effective default timeout lies within 3..60 for every
\* configured value.
C23_AsStated == \A r \in Runs : TimeoutSet(r) => runs[r].timeout \in 3..60

\* C23: the effective default timeout is the configured value, 3 at least:
\* it is never below 3, has no upper limit, and lies within 3..60 when the
\* configured value is at most 60.
C23_TimeoutFloorOnly ==
    \A r \in Runs :
        TimeoutSet(r) =>
            /\ runs[r].timeout >= 3
            /\ runs[r].timeout = EffectiveTimeout(r)
            /\ runs[r].timeout_var <= 60 => runs[r].timeout \in 3..60
            /\ runs[r].timeout_var > 60 => runs[r].timeout = runs[r].timeout_var

\* a configured value above 60 is the timeout of a task
C23_Witness ==
    \E r \in Runs : \E t \in Tasks(r) :
        /\ TimeoutSet(r)
        /\ runs[r].timeout_var > 60
        /\ runs[r].future_map[t].timeout = runs[r].timeout_var

\* ---- C24 ----
\* the hits the task of source s added to the results of run r, in order
TaskHits(r, s) ==
    LET idx == SelectSeq([i \in 1..Len(runs[r].origin) |-> i],
                         LAMBDA i : runs[r].origin[i].src = s /\ runs[r].origin[i].via # "dataset")
    IN  [k \in 1..Len(idx) |-> runs[r].results[idx[k]]]

\* H is the fallback of source s: the home link if a home page is known,
\* then the dork link
IsFallback(H, s) ==
    /\ Len(H) = (IF HomeResolvable(s) THEN 2 ELSE 1)
    /\ RawOf(H[Len(H)], "fallback") = S("dork")
    /\ HomeResolvable(s) => RawOf(H[1], "fallback") = S("home")
    /\ \A i \in 1..Len(H) : H[i].site = s

\* C24: the hits a collected task added to the results are the hits its
\* scraper returned in time, as returned and in that order, when there is
\* at least one; otherwise they are the fallback of the source and none of
\* them is a hit of the scraper; after a scraper that returned nothing the
\* fallback hits carry the fallback tag alone.  A task not yet collected
\* has added nothing.
C24_OutcomesExclusive ==
    \A r \in Runs : \A t \in Tasks(r) :
        LET task == runs[r].future_map[t]
            H == TaskHits(r, task.site)
        IN  IF task.state # "collected" THEN H = <<>>
            ELSE IF task.outcome = "returned" /\ Len(task.hits) > 0
            THEN H = task.hits /\ \A i \in 1..Len(H) : ~DictHas(H[i].raw, "fallback")
            ELSE /\ IsFallback(H, task.site)
                 /\ \A i \in 1..Len(H) : \A k \in 1..Len(task.hits) : H[i] # task.hits[k]
                 /\ task.outcome = "returned" =>
                        \A i \in 1..Len(H) :
                            /\ Len(H[i].raw) = 1
                            /\ ~DictHas(H[i].raw, "timeout") /\ ~DictHas(H[i].raw, "error")

\* one run collected the hits of a scraper, the fallback of a source whose
\* scraper returned nothing, and the fallback of a task whose scraper
\* returned hits after the timeout
C24_Witness ==
    \E r \in Runs : \E t, u \in Tasks(r) :
        /\ Done(r)
        /\ runs[r].future_map[t].outcome = "returned" /\ Len(runs[r].future_map[t].hits) > 1
        /\ TaskHits(r, runs[r].future_map[t].site) = runs[r].future_map[t].hits
        /\ runs[r].future_map[u].outcome = "timeout" /\ Len(runs[r].future_map[u].hits) > 0
        /\ IsFallback(TaskHits(r, runs[r].future_map[u].site), runs[r].future_map[u].site)

\* ---- C25 ----
\* a is the beginning of b
IsPrefix(a, b) == Len(a) <= Len(b) /\ \A i \in 1..Len(a) : a[i] = b[i]

\* run r has handed work to the scheduler
SchedulerBegun(r) == runs[r].future_map # <<>> \/ runs[r].scraper_calls # <<>>

\* C25: a run at its cache step has called no dataset provider and no
\* scraper; the provider is called for the sources in dispatch order, one
\* for each iteration of the prefilter done; once the scheduler has a task
\* or a scraper was called the prefilter is over, with every source queried
\* if the query has a token; in the queue every hit event of the prefilter
\* comes before its closing note and every hit event of the scheduler
\* after it, so the dataset hits come first among the hit events.
C25_PhasesSerial ==
    \A r \in Runs :
        /\ runs[r].pc = "cache" => (runs[r].ds_calls = <<>> /\ ~SchedulerBegun(r))
        /\ Len(runs[r].cache_hits) > 0 => (runs[r].ds_calls = <<>> /\ ~SchedulerBegun(r))
        /\ IsPrefix(runs[r].ds_calls, runs[r].ordered_sites)
        /\ runs[r].pc = "prefilter" =>
                /\ ~SchedulerBegun(r)
                /\ Len(runs[r].ds_calls) = (IF runs[r].tokens = <<>> THEN 0 ELSE runs[r].idx - 1)
        /\ SchedulerBegun(r) =>
                /\ runs[r].pc \in {"submit", "collect", "done", "crashed"}
                /\ runs[r].tokens # <<>> => runs[r].ds_calls = runs[r].ordered_sites
                /\ PrefilterHitEvents(r) = runs[r].results_from_datasets
                /\ IsPrefix(runs[r].results_from_datasets, HitEvents(r))
                /\ \A i \in 1..Len(runs[r].origin) :
                        runs[r].origin[i].via = "dataset" <=> i <= Len(runs[r].results_from_datasets)

\* a run looked the cache up, queried two sources, accepted dataset hits
\* and then collected hits of the scheduler
C25_Witness ==
    \E r \in Runs :
        /\ Done(r) /\ runs[r].cache_read = "ok"
        /\ Len(runs[r].ds_calls) = 2
        /\ Len(runs[r].results_from_datasets) > 0
        /\ Len(HitEvents(r)) > Len(runs[r].results_from_datasets)
        /\ runs[r].scraper_calls # <<>>

\* ---- C28 ----
\* the payload of the last event of the queue of run r
LastPayload(r) == runs[r].ui_queue[Len(runs[r].ui_queue)][2]

\* C28: a run that has ended without an uncaught fault has put exactly one
\* done event, as its last event, and the payload of it is the number of
\* hit events the run has put; if the run was live and save_cache stored
\* its results, the list stored has that length.  A run that has not ended,
\* or was ended by an uncaught fault, has put no done event.
C28_OneDoneEvent ==
    \A r \in Runs :
        /\ Done(r) =>
                /\ DoneEvents(r) = {Len(runs[r].ui_queue)}
                /\ LastPayload(r) = Len(HitEvents(r))
                /\ (LiveRun(r) /\ Stored(r) /\ r = Len(runs)) =>
                        /\ files[runs[r].saved[1]].ok
                        /\ Len(files[runs[r].saved[1]].data) = LastPayload(r)
        /\ ~Done(r) => DoneEvents(r) = {}

\* a live run that is done after dataset hits and scheduler hits, more hits
\* than tasks, its results stored
C28_Witness ==
    \E r \in Runs :
        /\ Done(r) /\ LiveRun(r) /\ Stored(r) /\ r = Len(runs)
        /\ Len(runs[r].results_from_datasets) > 0
        /\ LastPayload(r) > Len(runs[r].results_from_datasets)
        /\ LastPayload(r) > Len(runs[r].future_map)

\* ---- C29 ----
\* run r ended on the cache
CacheServed(r) == Len(runs[r].cache_hits) > 0

\* the sources named by the hits of a list
SitesOf(hits) == {hits[i].site : i \in 1..Len(hits)}

\* C29: a run without bypass whose query has a readable entry, and whose
\* read of it does not fail, ends on the cache whatever sources and engine
\* it selects; the hit events of a run that ends on the cache are the
\* results of the last run that stored the entry, so two such runs with no
\* store between them put the same hit events; such a run calls no provider
\* and no scraper, a source it selects gets no hit beyond those stored, and
\* the stored hits of sources it did not select are among its hit events.
C29_CacheIgnoresSelection ==
    \A r \in Runs :
        /\ (/\ r = Len(runs) /\ ~runs[r].skip_cache /\ runs[r].pc # "cache"
            /\ runs[r].cache_read = "ok" /\ runs[r].saved = <<>>
            /\ HasEntry(files, runs[r].q) /\ files[cache_path_for_query(runs[r].q)].ok) => CacheServed(r)
        /\ CacheServed(r) =>
                /\ StoredBefore(r) # {}
                /\ HitEvents(r) = runs[Writer(r)].results
                /\ runs[r].ds_calls = <<>> /\ runs[r].scraper_calls = <<>> /\ runs[r].future_map = <<>>
                /\ \A s \in runs[r].selected \ SitesOf(runs[Writer(r)].results) : s \notin SitesOf(HitEvents(r))
                /\ SitesOf(runs[Writer(r)].results) \subseteq SitesOf(HitEvents(r))
                /\ \A k \in Runs :
                        (CacheServed(k) /\ runs[k].q = runs[r].q /\ Writer(k) = Writer(r))
                            => HitEvents(k) = HitEvents(r)

\* two runs ended on the entry stored by a third; each selected one source,
\* another than the run that stored the entry, the last with another
\* engine; both put the hits of the source of the first run
C29_Witness ==
    \E r, k \in Runs :
        /\ k < r /\ CacheServed(k) /\ CacheServed(r) /\ Done(r)
        /\ runs[k].q = runs[r].q
        /\ runs[k].selected # runs[r].selected
        /\ runs[k].engine_var # runs[r].engine_var
        /\ runs[r].selected \cap runs[Writer(r)].selected = {}
        /\ SitesOf(HitEvents(r)) \cap runs[r].selected = {}
        /\ HitEvents(k) = HitEvents(r)

\* ---- C30 ----
\* the totals announced by run r
Announced(r) ==
    LET ev == SelectSeq(runs[r].ui_queue, LAMBDA e : e[1] = "setup_progress")
    IN  [i \in 1..Len(ev) |-> ev[i][2]]

\* the selected sources the prefilter removed from the live-scrape list
Removed(r) == runs[r].selected \cap runs[r].satisfied_sites

\* C30: a live run announces one total, the number of sources selected,
\* before any provider or scraper is called; when it is done it has put one
\* progress increment for each selected source that the prefilter did not
\* remove as satisfied, all of them before the done event; a run that ended
\* on the cache has put no total and no progress increment.
C30_ProgressAccounting ==
    \A r \in Runs :
        /\ (LiveRun(r) /\ runs[r].pc # "cache") =>
                /\ Announced(r) = <<Cardinality(runs[r].selected)>>
                /\ runs[r].total = Cardinality(runs[r].selected)
        /\ runs[r].pc = "cache" => (Announced(r) = <<>> /\ Completed(r) = 0)
        /\ (LiveRun(r) /\ Finished(r)) =>
                Completed(r) = Cardinality(runs[r].selected) - Cardinality(Removed(r))
        /\ (LiveRun(r) /\ Done(r)) => runs[r].ui_queue[Len(runs[r].ui_queue)][1] = "done"
        /\ CacheServed(r) => (Announced(r) = <<>> /\ Completed(r) = 0)

\* a live run over two sources is done: the prefilter removed one, the
\* total announced is 2 and there is one progress increment
C30_Witness ==
    \E r \in Runs :
        /\ LiveRun(r) /\ Done(r)
        /\ Announced(r) = <<2>>
        /\ Cardinality(Removed(r)) = 1
        /\ Completed(r) = 1

\* ---- C27 ----
\* the call made last
LastCall == runs[1]

\* the entry of query q is the same in the files fs and gs
SameEntry(fs, gs, q) ==
    /\ HasEntry(fs, q) <=> HasEntry(gs, q)
    /\ HasEntry(fs, q) => fs[cache_path_for_query(q)] = gs[cache_path_for_query(q)]

\* C27: clear_cache_for_query returns true exactly when the entry of its
\* query existed before the call and is gone after it, and a lookup of that
\* query then gives no hits; a call of load_cache, save_cache or
\* clear_cache_for_query on one query leaves the entry of every other query
\* as it was, and load_cache leaves every entry as it was.
C27_InvalidateAndFrame ==
    runs # <<>> =>
        /\ LastCall.op = "clear_cache_for_query" =>
                /\ LastCall.returned = TRUE <=>
                        (HasEntry(LastCall.before, LastCall.q) /\ ~HasEntry(files, LastCall.q))
                /\ LastCall.returned = TRUE => load_cache(files, LastCall.q, "ok") = <<>>
        /\ \A q \in CacheQueries \ {LastCall.q} : SameEntry(LastCall.before, files, q)
        /\ Cardinality(DOMAIN files \ {cache_path_for_query(LastCall.q)})
                = Cardinality(DOMAIN LastCall.before \ {cache_path_for_query(LastCall.q)})
        /\ LastCall.op = "load_cache" => files = LastCall.before

\* clear_cache_for_query removed the entry of one query and returned true
\* while the other queries had an entry
C27_Witness ==
    /\ runs # <<>>
    /\ LastCall.op = "clear_cache_for_query"
    /\ LastCall.returned = TRUE
    /\ ~HasEntry(files, LastCall.q)
    /\ \A q \in CacheQueries \ {LastCall.q} : HasEntry(files, q) /\ files[cache_path_for_query(q)].ok

\* ---- C22 ----
\* C22 as stated: when two runs of one query have both written the cache,
\* the entry is readable and holds the complete results of the run whose
\* write ended last.
C22_LastWriterWins ==
    (\A w \in Runs : runs[w].pc = "done") =>
        \A w \in Runs :
            runs[w].turn = Len(runs) =>
                load_cache(files, runs[w].q, "ok") = runs[w].results

\* ---- C26 ----
\* every event put so far, in the order of the puts: those taken off the
\* queue, then those waiting in it
Enqueued == app.processed \o app.ui_queue

\* the events of run r among a sequence of queue entries, in its order
PutBy(entries, r) ==
    LET own == SelectSeq(entries, LAMBDA e : e.run = r)
    IN  [i \in 1..Len(own) |-> own[i].event]

\* the payloads of the hit events among a sequence of queue entries
HitPayloads(entries) ==
    LET hits == SelectSeq(entries, LAMBDA e : e.event[1] = "hit")
    IN  [i \in 1..Len(hits) |-> hits[i].event[2]]

\* C26: with several runs active, the events are taken off the queue in the
\* order they were put, each once and none lost (the k-th entry taken or
\* waiting is the k-th put); the events of each run are taken in the order
\* the run put them; and the interface's result list is the hit events
\* taken so far, each appended once, in that order.
C26_QueueOrderedLossless ==
    /\ \A k \in 1..Len(Enqueued) : Enqueued[k].put = k
    /\ \A r \in Runs : PutBy(Enqueued, r) = runs[r].ui_queue
    /\ \A r \in Runs : IsPrefix(PutBy(app.processed, r), runs[r].ui_queue)
    /\ app.results = HitPayloads(app.processed)

\* both runs ended and every event was taken; the events of the two runs
\* were interleaved in the queue, and hits of both are in the result list
C26_Witness ==
    /\ plan = <<>> /\ Len(runs) = 2
    /\ \A r \in Runs : Done(r)
    /\ app.ui_queue = <<>>
    /\ \E i, j, k \in 1..Len(app.processed) :
            /\ i < j /\ j < k
            /\ app.processed[i].run = 1 /\ app.processed[j].run = 2 /\ app.processed[k].run = 1
    /\ \A r \in Runs : Len(HitPayloads(SelectSeq(app.processed, LAMBDA e : e.run = r))) > 0
    /\ Len(app.results) > 2

==========================================================================
